---- MODULE Spec2Model ----
(***************************************************************************)
(* A model of the compartmental simulation engine of ziggy/macro.py:       *)
(* parameter resolution, totals, the transition dispatcher, and the        *)
(* time-stepping loop of simulate/_iterate_model with its recording        *)
(* policy.                                                                 *)
(*                                                                         *)
(* Conventions.                                                            *)
(*  - A Python str that the code takes apart (key[0], key.split("_")) is a *)
(*    sequence of one-character strings: 'S_I1' is <<"S","_","I","1">>.    *)
(*  - A Python dict whose order the code can observe (compartments,        *)
(*    transitions, totals, transition_funcs) is a sequence of <<key,       *)
(*    value>> pairs with distinct keys, in insertion order.                *)
(*  - A group, and a parameters mapping, is a record that has exactly the  *)
(*    fields the Python dict has keys.                                     *)
(*  - A number is an exact rational <<n, d>> in lowest terms, d > 0.       *)
(*    <<0, 0>> stands for "the evaluation raised" (ZeroDivisionError) and  *)
(*    propagates through every operation, as the exception would.          *)
(*  - Mutable model objects live in a heap; deepcopy allocates.            *)
(***************************************************************************)
EXTENDS Integers, Sequences, FiniteSets, TLC

VARIABLES
    heap,       \* address -> model object (a whole group tree is one object)
    input,      \* the caller's modelList: addresses of the caller's models
    work,       \* `results` of simulate / `modelList` of _iterate_model
    series,     \* modelListSeries: sequence of sequences of addresses
    pc,         \* position in simulate/_iterate_model
    iteration,  \* loop variable of _iterate_model
    to_max,     \* to_ of _iterate_model: the end of the controlling range
    ident,      \* the ident argument of simulate (None or an integer)
    stepped,    \* history: <<iteration, index>> of every model stepped
    visits,     \* history: per model stepped in the latest iteration, the
                \* model handed to the dispatcher and what it used at each leaf
    firstLen,   \* history: length of the series when the iterating phase began
    store,      \* the resolver on its own: address -> dict or list object
    argument,   \* the address of the override mapping given to the resolver
    results,    \* the addresses of the parameters the resolver has returned
    mutations,  \* the number of changes the caller made to what it was returned
    given,      \* history: the objects as they were before the first call
    table,      \* the table the caller had made of the series
    tabled,     \* history: the call that made the table
    submitted,  \* the modelListSeries given to simulate_series
    processes,  \* the number of workers of the pool
    started,    \* the number of tasks the pool has handed to workers
    running,    \* the numbers of the tasks the workers are at
    output,     \* per task, None or <<r>>, r what the worker returned
    finished,   \* history: the numbers of the tasks in the order they ended
    returned    \* None, or <<results>>, what simulate_series returned

stepperVars == <<heap, input, work, series, pc, iteration, to_max, ident,
                 stepped, visits, firstLen>>
resolverVars == <<store, argument, results, mutations, given>>
tableVars == <<table, tabled>>
poolVars == <<submitted, processes, started, running, output, finished,
              returned>>
vars == <<stepperVars, resolverVars, tableVars, poolVars>>

\* ident is None, or <<i>> for the integer i
None == <<>>

(***************************************************************************)
(* Bounds of the model.                                                    *)
(***************************************************************************)
MaxTo == 4
MaxListTo == 2
MaxFrom == 1
MaxBelow == 1
MaxFreq == 2
MaxIter == 2
MaxDraws == 2
MaxResolutions == 2
MaxMutations == 2
MaxNest == 2
MaxLists == 2
MaxProcesses == 2

(***************************************************************************)
(* Exact rational arithmetic.                                              *)
(***************************************************************************)
Abs(x) == IF x < 0 THEN -x ELSE x

RECURSIVE GCD(_, _)
GCD(a, b) == IF b = 0 THEN a ELSE GCD(b, a % b)

Bad == <<0, 0>>
IsBad(q) == q[2] = 0

Q(n, d) ==
    IF d = 0 THEN Bad
    ELSE LET s == IF d < 0 THEN -1 ELSE 1
             g == GCD(Abs(n), Abs(d))
         IN  <<(s * n) \div g, (s * d) \div g>>

Num(n) == <<n, 1>>

\* the operations cancel common factors before they multiply
RAdd(a, b) == IF IsBad(a) \/ IsBad(b) THEN Bad
              ELSE LET g == GCD(a[2], b[2])
                   IN  Q(a[1] * (b[2] \div g) + b[1] * (a[2] \div g),
                         (a[2] \div g) * b[2])
RSub(a, b) == IF IsBad(a) \/ IsBad(b) THEN Bad ELSE RAdd(a, <<0 - b[1], b[2]>>)
RMul(a, b) == IF IsBad(a) \/ IsBad(b) THEN Bad
              ELSE LET g == GCD(Abs(a[1]), b[2])
                       h == GCD(Abs(b[1]), a[2])
                   IN  Q((a[1] \div g) * (b[1] \div h),
                         (a[2] \div h) * (b[2] \div g))
\* a division that gives zero where the divisor is zero
RDivOrZero(a, b) ==
    IF IsBad(a) \/ IsBad(b) THEN Bad
    ELSE IF b[1] = 0 THEN Num(0)
    ELSE RMul(a, IF b[1] < 0 THEN <<0 - b[2], 0 - b[1]>> ELSE <<b[2], b[1]>>)

\* x / y: raises ZeroDivisionError when y is zero
RDiv(a, b) == IF IsBad(a) \/ IsBad(b) \/ b[1] = 0 THEN Bad
              ELSE RMul(a, IF b[1] < 0 THEN <<0 - b[2], 0 - b[1]>>
                           ELSE <<b[2], b[1]>>)

\* Python's round(val, 0): to the nearest whole number, ties to the even one
PyRound(a) ==
    IF IsBad(a) THEN Bad
    ELSE LET f == a[1] \div a[2]
             r == a[1] % a[2]
         IN  IF 2 * r < a[2] THEN Num(f)
             ELSE IF 2 * r > a[2] THEN Num(f + 1)
             ELSE IF f % 2 = 0 THEN Num(f) ELSE Num(f + 1)

(***************************************************************************)
(* Python dicts as sequences of <<key, value>> pairs.                      *)
(***************************************************************************)
\* the list, and the mapping, a comprehension builds: built there and then
List(f) == f \o <<>>
Mapping(f) == f @@ <<>>

DictHas(d, k) == \E i \in 1..Len(d) : d[i][1] = k
DictGet(d, k) == d[CHOOSE i \in 1..Len(d) : d[i][1] = k][2]
DictKeys(d) == List([i \in 1..Len(d) |-> d[i][1]])
\* d[k] = v
DictSet(d, k, v) ==
    IF DictHas(d, k)
    THEN List([i \in 1..Len(d) |-> IF d[i][1] = k THEN <<k, v>> ELSE d[i]])
    ELSE Append(d, <<k, v>>)

\* d.update(e)
RECURSIVE DictUpdate(_, _)
DictUpdate(d, e) ==
    IF e = <<>> THEN d
    ELSE DictUpdate(DictSet(d, Head(e)[1], Head(e)[2]), Tail(e))

\* p.update(q) for mappings held as records
RecUpdate(p, q) ==
    Mapping([k \in DOMAIN p \cup DOMAIN q |->
                IF k \in DOMAIN q THEN q[k] ELSE p[k]])

Has(g, field) == field \in DOMAIN g

(***************************************************************************)
(* Python str operations the code uses.                                    *)
(***************************************************************************)
\* s.split("_")
RECURSIVE SplitFrom(_, _, _)
SplitFrom(s, i, cur) ==
    IF i > Len(s) THEN <<cur>>
    ELSE IF s[i] = "_" THEN <<cur>> \o SplitFrom(s, i + 1, <<>>)
    ELSE SplitFrom(s, i + 1, Append(cur, s[i]))

split(s) == SplitFrom(s, 1, <<>>)

\* from_, to_ = key.split("_")
from_(key) == split(key)[1]
to_(key) == split(key)[2]

Key(a, b) == a \o <<"_">> \o b

(***************************************************************************)
(* Names used by the built-in rules and the sample models.                 *)
(***************************************************************************)
nN == <<"N">>
nS == <<"S">>
nE == <<"E">>
nI == <<"I">>
nR == <<"R">>
nD == <<"D">>
nB == <<"B">>
nI1 == <<"I", "1">>
nI2 == <<"I", "2">>
nT1 == <<"T", "1">>
nDI == <<"D", "I">>
nE1 == <<"E", "1">>
kDefault == <<"default">>

(***************************************************************************)
(* The group tree.                                                         *)
(***************************************************************************)
RECURSIVE GroupAt(_, _)
GroupAt(g, path) ==
    IF path = <<>> THEN g ELSE GroupAt(g.groups[Head(path)], Tail(path))

RECURSIVE SetCompartments(_, _, _)
SetCompartments(g, path, comps) ==
    IF path = <<>> THEN [g EXCEPT !.compartments = comps]
    ELSE [g EXCEPT !.groups[Head(path)] =
                       SetCompartments(@, Tail(path), comps)]

\* traverse(group), as the pre-order sequence of the paths of the groups
RECURSIVE TraversePaths(_, _), TraverseChildren(_, _, _)
TraversePaths(g, path) ==
    <<path>> \o (IF Has(g, "groups") THEN TraverseChildren(g, path, 1)
                 ELSE <<>>)
TraverseChildren(g, path, i) ==
    IF i > Len(g.groups) THEN <<>>
    ELSE TraversePaths(g.groups[i], Append(path, i))
         \o TraverseChildren(g, path, i + 1)

traverse(group) ==
    LET ps == TraversePaths(group, <<>>)
    IN  List([i \in 1..Len(ps) |-> GroupAt(group, ps[i])])

(***************************************************************************)
(* Totals.                                                                 *)
(***************************************************************************)
\* the tally kept under the first letter of the name
TalliedByPrefix(totals, key, value) ==
    LET prefix == <<key[1]>>
        t1 == IF DictHas(totals, prefix)
              THEN DictSet(totals, prefix,
                           RAdd(DictGet(totals, prefix), value))
              ELSE DictSet(totals, prefix, value)
    IN  IF key[1] # "D" THEN DictSet(t1, nN, RAdd(DictGet(t1, nN), value))
        ELSE t1

\* totals[key] += value, or = value for a new key; N leaves the dead out
Tallied(totals, key, value) ==
    LET t1 == IF DictHas(totals, key)
              THEN DictSet(totals, key, RAdd(DictGet(totals, key), value))
              ELSE DictSet(totals, key, value)
    IN  IF key[1] # "D" THEN DictSet(t1, nN, RAdd(DictGet(t1, nN), value))
        ELSE t1

\* the loop over a group's compartments: left is <<totals, items to come>>
RECURSIVE TotalsOfCompartments(_)
TotalsOfCompartments(left) ==
    IF left[2] = <<>> THEN left[1]
    ELSE TotalsOfCompartments(
             <<Tallied(left[1], Head(left[2])[1], Head(left[2])[2]),
               Tail(left[2])>>)

\* the loop over traverse(model): left is <<totals, groups to come>>
RECURSIVE TotalsOfGroups(_)
TotalsOfGroups(left) ==
    IF left[2] = <<>> THEN left[1]
    ELSE TotalsOfGroups(
             <<IF Has(Head(left[2]), "compartments")
               THEN TotalsOfCompartments(
                        <<left[1], Head(left[2]).compartments>>)
               ELSE left[1],
               Tail(left[2])>>)

calc_totals(model) ==
    TotalsOfGroups(<< << <<nN, Num(0)>> >>, traverse(model) >>)

\* the part of a compartment that is infectious
Infectious(key, value, ti, ai) ==
    IF key[1] = "I" THEN value
    ELSE IF key[1] = "T" THEN RMul(ti, value)
    ELSE IF key[1] = "A" THEN RMul(ai, value)
    ELSE Num(0)

\* the loop over a group's compartments: left is <<total, items to come>>
RECURSIVE InfectiousnessOfCompartments(_, _, _)
InfectiousnessOfCompartments(left, ti, ai) ==
    IF left[2] = <<>> THEN left[1]
    ELSE InfectiousnessOfCompartments(
             <<RAdd(left[1], Infectious(Head(left[2])[1], Head(left[2])[2],
                                        ti, ai)),
               Tail(left[2])>>, ti, ai)

\* the loop over traverse(model): left is <<total, groups to come>>
RECURSIVE InfectiousnessOfGroups(_, _, _)
InfectiousnessOfGroups(left, ti, ai) ==
    IF left[2] = <<>> THEN left[1]
    ELSE InfectiousnessOfGroups(
             <<IF Has(Head(left[2]), "compartments")
               THEN InfectiousnessOfCompartments(
                        <<left[1], Head(left[2]).compartments>>, ti, ai)
               ELSE left[1],
               Tail(left[2])>>, ti, ai)

sum_infectiousness(model) ==
    InfectiousnessOfGroups(<<Num(0), traverse(model)>>,
                           model.parameters.treatment_infectiousness,
                           model.parameters.asymptomatic_infectiousness)

(***************************************************************************)
(* The update rules.                                                       *)
(***************************************************************************)
\* the new infections with the division by N left out
delta_S_I_Undivided(from_to, beta, compartments, totals, model) ==
    RMul(RMul(beta, DictGet(compartments, from_(from_to))),
         DictGet(totals, to_(from_to)))

delta_S_I(from_to, beta, compartments, totals, model) ==
    RDiv(RMul(RMul(beta, DictGet(compartments, from_(from_to))),
              DictGet(totals, to_(from_to))),
         DictGet(totals, nN))

delta_X_Y(from_to, prop, compartments, totals, model) ==
    RMul(prop, DictGet(compartments, from_(from_to)))

delta_birth_X(from_to, prop, compartments, totals, model) ==
    RMul(prop, DictGet(compartments, to_(from_to)))

delta_S_I1(from_to, beta, compartments, totals, model) ==
    RDiv(RMul(RMul(beta, DictGet(compartments, from_(from_to))),
              sum_infectiousness(model)),
         DictGet(totals, nN))

\* func(key, value, compartments, totals, model)
CallRule(func, key, value, compartments, totals, model) ==
    CASE func = "delta_S_I" -> delta_S_I(key, value, compartments, totals, model)
      [] func = "delta_S_I1" -> delta_S_I1(key, value, compartments, totals, model)
      [] func = "delta_birth_X" ->
             delta_birth_X(key, value, compartments, totals, model)
      [] func = "delta_X_Y" -> delta_X_Y(key, value, compartments, totals, model)

(***************************************************************************)
(* Parameters.                                                             *)
(***************************************************************************)
PARAMETERS ==
    [from |-> 0,
     to |-> 365,
     record_frequency |-> 50,
     reduce_infectivity |-> Num(1),
     asymptomatic_infectiousness |-> Num(1),
     treatment_infectiousness |-> Num(1),
     noise |-> Num(0),
     discrete |-> FALSE,
     record_first |-> TRUE,
     record_last |-> TRUE,
     transition_funcs |->
         << <<Key(nS, nI), "delta_S_I">>,
            <<Key(nS, nE), "delta_S_I">>,
            <<Key(nS, nI1), "delta_S_I1">>,
            <<Key(nS, nE1), "delta_S_I1">>,
            <<Key(nB, nS), "delta_birth_X">>,
            <<kDefault, "delta_X_Y">> >>,
     before_funcs |-> <<>>,
     after_funcs |-> <<>>]

\* isinstance(parameters[key], dict)
IsDictParameter(key) == key = "transition_funcs"

\* every override replacing the default wholesale, the mappings too
ReplacedWholesale(dictionary) ==
    Mapping([key \in DOMAIN PARAMETERS \cup DOMAIN dictionary |->
                IF key \in DOMAIN dictionary THEN dictionary[key]
                ELSE PARAMETERS[key]])

_make_parameters(dictionary) ==
    Mapping([key \in DOMAIN PARAMETERS \cup DOMAIN dictionary |->
                IF key \in DOMAIN dictionary
                THEN IF key \in DOMAIN PARAMETERS /\ IsDictParameter(key)
                     THEN DictUpdate(PARAMETERS[key], dictionary[key])
                     ELSE dictionary[key]
                ELSE PARAMETERS[key]])

(***************************************************************************)
(* The resolver over objects: a dict or a list is an object at an address, *)
(* [kind, items]; what a dict or a list holds is a cell, [val |-> v] for   *)
(* an immutable value and [ref |-> a] for the object at address a.         *)
(***************************************************************************)
\* the keys of PARAMETERS, in the order of the source
ParameterKeys ==
    <<"from", "to", "record_frequency", "reduce_infectivity",
      "asymptomatic_infectiousness", "treatment_infectiousness", "noise",
      "discrete", "record_first", "record_last", "transition_funcs",
      "before_funcs", "after_funcs">>

\* the values that are lists: the hook lists
IsListParameter(key) == key \in {"before_funcs", "after_funcs"}

CellAt(object, i) ==
    IF object.kind = "dict" THEN object.items[i][2] ELSE object.items[i]

\* the addresses an object holds
RefsOf(object) ==
    {CellAt(object, i).ref :
        i \in {j \in 1..Len(object.items) : Has(CellAt(object, j), "ref")}}

\* the objects one gets at from the object at a
RECURSIVE Reach(_, _)
Reach(st, a) == {a} \cup UNION {Reach(st, b) : b \in RefsOf(st[a])}

\* the objects of one value of a parameters mapping
AllocatedValue(st, key, value) ==
    IF IsDictParameter(key)
    THEN [store |-> Append(st, [kind |-> "dict",
                                items |-> List([i \in 1..Len(value) |->
                                             <<value[i][1],
                                               [val |-> value[i][2]]>>])]),
          cell |-> [ref |-> Len(st) + 1]]
    ELSE IF IsListParameter(key)
    THEN [store |-> Append(st, [kind |-> "list",
                                items |-> List([i \in 1..Len(value) |->
                                             [val |-> value[i]]])]),
          cell |-> [ref |-> Len(st) + 1]]
    ELSE [store |-> st, cell |-> [val |-> value]]

\* the objects of a parameters mapping: left is the store, the keys to come
\* and the items made
RECURSIVE AllocatedItems(_, _)
AllocatedItems(left, mapping) ==
    IF left.keys = <<>> THEN left
    ELSE LET key == Head(left.keys)
             v == AllocatedValue(left.store, key, mapping[key])
         IN  AllocatedItems([store |-> v.store, keys |-> Tail(left.keys),
                             items |-> Append(left.items, <<key, v.cell>>)],
                            mapping)

\* the mapping as a dict object, at the end of the store
Allocated(st, mapping, keys) ==
    LET r == AllocatedItems([store |-> st, keys |-> keys, items |-> <<>>],
                            mapping)
    IN  Append(r.store, [kind |-> "dict", items |-> r.items])

\* the global PARAMETERS, the first objects of the store
DefaultObjects == Allocated(<<>>, PARAMETERS, ParameterKeys)
DefaultsAt == Len(DefaultObjects)

\* copy.deepcopy of the object at a: [store, addr], the copy at addr
RECURSIVE CopyObject(_, _), CopyItems(_)
CopyObject(st, a) ==
    LET c == CopyItems([store |-> st, todo |-> st[a].items, done |-> <<>>,
                        kind |-> st[a].kind])
    IN  [store |-> Append(c.store, [kind |-> c.kind, items |-> c.done]),
         addr |-> Len(c.store) + 1]
CopyItems(left) ==
    IF left.todo = <<>> THEN left
    ELSE LET item == Head(left.todo)
             cell == IF left.kind = "dict" THEN item[2] ELSE item
             c == IF Has(cell, "ref") THEN CopyObject(left.store, cell.ref)
                  ELSE [store |-> left.store, addr |-> 0]
             copied == IF Has(cell, "ref") THEN [ref |-> c.addr] ELSE cell
         IN  CopyItems([store |-> c.store, todo |-> Tail(left.todo),
                        done |-> Append(left.done,
                                        IF left.kind = "dict"
                                        THEN <<item[1], copied>> ELSE copied),
                        kind |-> left.kind])

\* isinstance(parameters[key], dict)
IsDictAt(st, cell) == Has(cell, "ref") /\ st[cell.ref].kind = "dict"

\* the body of the loop of _make_parameters for one item of dictionary:
\* the object val stands for is stored as it is, not a copy of it
Overridden(st, parameters, key, val) ==
    LET p == st[parameters].items
    IN  IF DictHas(p, key) /\ IsDictAt(st, DictGet(p, key))
        THEN [st EXCEPT ![DictGet(p, key).ref].items =
                            DictUpdate(@, st[val.ref].items)]
        ELSE [st EXCEPT ![parameters].items = DictSet(@, key, val)]

\* for key, val in dictionary.items(): left is <<store, items to come>>
RECURSIVE OverriddenAll(_, _)
OverriddenAll(left, parameters) ==
    IF left[2] = <<>> THEN left[1]
    ELSE OverriddenAll(<<Overridden(left[1], parameters, Head(left[2])[1],
                                    Head(left[2])[2]),
                         Tail(left[2])>>,
                       parameters)

\* _make_parameters(dictionary) over objects: [store, addr]
ResolvedObjects(st, dict) ==
    LET c == CopyObject(st, DefaultsAt)
    IN  [store |-> OverriddenAll(<<c.store, st[dict].items>>, c.addr),
         addr |-> c.addr]

(***************************************************************************)
(* The reduce_infectivity hook.                                            *)
(***************************************************************************)
\* the reduction made of whatever flows to E or I, the source not looked at
ReduceTransitionsInto(transitions, reduction) ==
    List([i \in 1..Len(transitions) |->
             LET key == transitions[i][1]
             IN  IF to_(key)[1] = "E" \/ to_(key)[1] = "I"
                 THEN <<key, RMul(transitions[i][2], reduction)>>
                 ELSE transitions[i]])

ReduceTransitions(transitions, reduction) ==
    List([i \in 1..Len(transitions) |->
             LET key == transitions[i][1]
             IN  IF from_(key)[1] = "S"
                    /\ (to_(key)[1] = "E" \/ to_(key)[1] = "I")
                 THEN <<key, RMul(transitions[i][2], reduction)>>
                 ELSE transitions[i]])

RECURSIVE ReduceGroup(_, _)
ReduceGroup(group, reduction) ==
    LET g1 == IF Has(group, "transitions")
              THEN [group EXCEPT !.transitions = ReduceTransitions(@, reduction)]
              ELSE group
    IN  IF Has(g1, "groups")
        THEN [g1 EXCEPT !.groups =
                 List([i \in 1..Len(@) |-> ReduceGroup(@[i], reduction)])]
        ELSE g1

reduce_infectivity(model) ==
    ReduceGroup(model,
                IF Has(model.parameters, "reduce_infectivity")
                THEN model.parameters.reduce_infectivity
                ELSE Num(1))

(***************************************************************************)
(* The transition dispatcher.                                              *)
(*                                                                         *)
(* random.uniform(1 - noise, 1 + noise) is 1 + u * noise for a u in        *)
(* [-1, 1]; rnd is the sequence of the u drawn, draws the number of draws  *)
(* made so far.                                                            *)
(***************************************************************************)
Us == {-1, 0, 1}

SetField(g, field, value) ==
    Mapping([f \in DOMAIN g \cup {field} |->
                IF f = field THEN value ELSE g[f]])

\* val *= random.uniform(1.0 - noise, 1.0 + noise), for the draw u
Noised(val, noise, u) == RMul(val, RAdd(Num(1), RMul(Num(u), noise)))

\* if parameters['discrete']: val = round(val, 0)
Discretized(val, discrete) == IF discrete THEN PyRound(val) ELSE val

\* the rule under 'default', whatever the key
RuleDefault(transition_funcs, key) == DictGet(transition_funcs, kDefault)

\* parameters['transition_funcs'][key], or the rule under 'default'
RuleFor(transition_funcs, key) ==
    IF DictHas(transition_funcs, key) THEN DictGet(transition_funcs, key)
    ELSE DictGet(transition_funcs, kDefault)

\* the value rounded first and the noise put on what was rounded
DeltaOfRoundedFirst(val, parameters, rnd, draws) ==
    IF parameters.noise # Num(0)
    THEN Noised(Discretized(val, parameters.discrete), parameters.noise,
                rnd[draws + 1])
    ELSE Discretized(val, parameters.discrete)

\* the value deltas[key] gets in the first loop of a leaf
DeltaOf(val, parameters, rnd, draws) ==
    Discretized(IF parameters.noise # Num(0)
                THEN Noised(val, parameters.noise, rnd[draws + 1])
                ELSE val,
                parameters.discrete)

\* the first loop of a leaf, deltas[key] for every key of t: left is the
\* deltas so far, the items of t to come and the number of draws made
RECURSIVE ComputeDeltas(_, _, _, _, _, _)
ComputeDeltas(left, parameters, compartments, totals, model, rnd) ==
    IF left.t = <<>> THEN [deltas |-> left.deltas, draws |-> left.draws]
    ELSE ComputeDeltas(
             [deltas |-> DictSet(left.deltas, Head(left.t)[1],
                            DeltaOf(CallRule(RuleFor(parameters.transition_funcs,
                                                     Head(left.t)[1]),
                                             Head(left.t)[1], Head(left.t)[2],
                                             compartments, totals, model),
                                    parameters, rnd, left.draws)),
              t |-> Tail(left.t),
              draws |-> IF parameters.noise # Num(0) THEN left.draws + 1
                        ELSE left.draws],
             parameters, compartments, totals, model, rnd)

\* a transfer that loses what it takes: the source alone is updated
MoveLost(compartments, source, target, value) ==
    DictSet(compartments, source, RSub(DictGet(compartments, source), value))

\* a transfer that never takes a source below zero, but adds all of value
MoveClamped(compartments, source, target, value) ==
    LET left == RSub(DictGet(compartments, source), value)
        c1 == DictSet(compartments, source,
                      IF ~IsBad(left) /\ left[1] < 0 THEN Num(0) ELSE left)
    IN  DictSet(c1, target, RAdd(DictGet(c1, target), value))

\* compartments[from_] -= value; compartments[to_] += value
Move(compartments, source, target, value) ==
    LET c1 == DictSet(compartments, source,
                      RSub(DictGet(compartments, source), value))
    IN  DictSet(c1, target, RAdd(DictGet(c1, target), value))

\* the second loop of a leaf: left is <<compartments, deltas to come>>
RECURSIVE ApplyDeltas(_)
ApplyDeltas(left) ==
    IF left[2] = <<>> THEN left[1]
    ELSE ApplyDeltas(<<Move(left[1], from_(Head(left[2])[1]),
                            to_(Head(left[2])[1]), Head(left[2])[2]),
                       Tail(left[2])>>)

\* the update made the wrong way round: what is inherited wins
AncestorWins(transitions, group) ==
    IF Has(group, "transitions") THEN DictUpdate(group.transitions, transitions)
    ELSE transitions

\* t = transitions.copy(); t.update(group['transitions'])
EffectiveTransitions(transitions, group) ==
    IF Has(group, "transitions") THEN DictUpdate(transitions, group.transitions)
    ELSE transitions

\* parameters.update(group['parameters']): the one dict object handed down
\* the tree is updated in place, so what st carries on is the updated dict
EffectiveParameters(st, group) ==
    IF Has(group, "parameters") THEN RecUpdate(st.parameters, group.parameters)
    ELSE st.parameters

\* the state the leaf's two loops leave, r being what the first loop computed
LeafUpdated(st, path, t, parameters, compartments, computed) ==
    LET r == computed
    IN
    [model |-> SetCompartments(st.model, path,
                               ApplyDeltas(<<compartments, r.deltas>>)),
     parameters |-> parameters,
     draws |-> r.draws,
     visits |-> Append(st.visits,
                       [path |-> path, t |-> t, parameters |-> parameters,
                        compartments |-> compartments, deltas |-> r.deltas,
                        live |-> st.model,
                        applied |-> ApplyDeltas(<<compartments, r.deltas>>)])]

\* one loop in place of two: each delta is applied as soon as it is made,
\* and the next is made from what it left. left is the deltas so far, the
\* items of t to come, the number of draws made and the compartments
RECURSIVE ComputeInTurn(_, _, _, _, _)
ComputeInTurn(left, parameters, totals, model, rnd) ==
    IF left.t = <<>> THEN [deltas |-> left.deltas, draws |-> left.draws]
    ELSE LET key == Head(left.t)[1]
             delta == DeltaOf(CallRule(RuleFor(parameters.transition_funcs,
                                               key),
                                       key, Head(left.t)[2], left.c, totals,
                                       model),
                              parameters, rnd, left.draws)
         IN  ComputeInTurn(
                 [deltas |-> DictSet(left.deltas, key, delta),
                  t |-> Tail(left.t),
                  draws |-> IF parameters.noise # Num(0) THEN left.draws + 1
                            ELSE left.draws,
                  c |-> Move(left.c, from_(key), to_(key), delta)],
                 parameters, totals, model, rnd)

GroupUpdatedInTurn(st, totals, path, group, t, parameters, rnd) ==
    IF Has(group, "compartments")
    THEN LeafUpdated(st, path, t, parameters, group.compartments,
                     ComputeInTurn([deltas |-> <<>>, t |-> t,
                                    draws |-> st.draws,
                                    c |-> group.compartments],
                                   parameters, totals, st.model, rnd))
    ELSE [st EXCEPT !.parameters = parameters]

\* if 'compartments' in group: ...
GroupUpdated(st, totals, path, group, t, parameters, rnd) ==
    IF Has(group, "compartments")
    THEN LeafUpdated(st, path, t, parameters, group.compartments,
                     ComputeDeltas([deltas |-> <<>>, t |-> t,
                                    draws |-> st.draws],
                                   parameters, group.compartments, totals,
                                   st.model, rnd))
    ELSE [st EXCEPT !.parameters = parameters]

\* st = [model, parameters, draws, visits]: the live model, the parameters
\* dict object, and the histories, as the recursion leaves them
RECURSIVE UpdateGroup(_, _, _, _, _), UpdateChildren(_, _, _, _, _, _)
UpdateGroup(st, totals, path, transitions, rnd) ==
    LET group == GroupAt(st.model, path)
        t == EffectiveTransitions(transitions, group)
        st1 == GroupUpdated(st, totals, path, group, t,
                            EffectiveParameters(st, group), rnd)
    IN  IF Has(group, "groups")
        THEN UpdateChildren(st1, totals, path, t, rnd, 1)
        ELSE st1
UpdateChildren(st, totals, path, t, rnd, i) ==
    IF i > Len(GroupAt(st.model, path).groups) THEN st
    ELSE UpdateChildren(UpdateGroup(st, totals, Append(path, i), t, rnd),
                        totals, path, t, rnd, i + 1)

\* _update_compartments(model, totals)
_update_compartments(model, totals, rnd, draws) ==
    UpdateGroup([model |-> model, parameters |-> <<>>, draws |-> draws,
                 visits |-> <<>>],
                totals, <<>>, <<>>, rnd)

(***************************************************************************)
(* simulate and _iterate_model.                                            *)
(***************************************************************************)
\* deepcopy: fresh objects at the end of the heap
deepcopy(h, addrs) ==
    [heap |-> h \o [i \in 1..Len(addrs) |-> h[addrs[i]]],
     addrs |-> List([i \in 1..Len(addrs) |-> Len(h) + i])]

\* the models themselves put into the series, with no copy made
SnapshotShared(h, addrs) == [heap |-> h, addrs |-> addrs]

\* the deep copies that go into the series
Snapshot(h, addrs) == deepcopy(h, addrs)

\* m = deepcopy(model); m['parameters'] = _make_parameters(...)
Resolved(model) ==
    SetField(model, "parameters",
             _make_parameters(IF Has(model, "parameters") THEN model.parameters
                              ELSE <<>>))

\* the caller's own objects resolved and iterated, with no copy made
SimulateInPlace(h, modelList) ==
    [heap |-> List([a \in 1..Len(h) |->
                       IF \E k \in 1..Len(modelList) : modelList[k] = a
                       THEN Resolved(h[a]) ELSE h[a]]),
     addrs |-> modelList]

\* results of simulate: the working objects and their addresses
SimulateResults(h, modelList) ==
    LET c == deepcopy(h, modelList)
    IN  [heap |-> List([a \in 1..Len(c.heap) |->
                           IF a > Len(h) THEN Resolved(c.heap[a])
                           ELSE c.heap[a]]),
         addrs |-> c.addrs]

Min(S) == CHOOSE x \in S : \A y \in S : x <= y
Max(S) == CHOOSE x \in S : \A y \in S : x >= y

RangeFrom(ms) == Min({ms[k].parameters.from : k \in 1..Len(ms)})
RangeTo(ms) == Max({ms[k].parameters.to : k \in 1..Len(ms)})

\* a stamp one too high
StampNext(model, idnt, it) ==
    Mapping([f \in DOMAIN model \cup {"iteration"} |->
                IF f = "iteration" THEN it + 1 ELSE model[f]])

\* model['iteration'] = it, and model['ident'] = ident unless it is None
Stamp(model, idnt, it) ==
    SetField(IF idnt # None THEN SetField(model, "ident", idnt[1]) ELSE model,
             "iteration", it)

\* func(model, modelList), on the working models ms, for model number k
CallHook(func, ms, k) ==
    CASE func = "reduce_infectivity" ->
             [ms EXCEPT ![k] = reduce_infectivity(ms[k])]

RECURSIVE RunHooks(_, _, _)
RunHooks(funcs, ms, k) ==
    IF funcs = <<>> THEN ms
    ELSE LET called == CallHook(Head(funcs), ms, k)
         IN  RunHooks(Tail(funcs), called, k)

\* the test made on the iteration that starts, not on the one that ends
RecordedBefore(model, it) == it % model.parameters.record_frequency = 0

\* whether model, stepped in iteration it, joins iterationModelList
Recorded(model, it) == (it + 1) % model.parameters.record_frequency = 0

\* for func in model['parameters']['before_funcs']: func(model, modelList)
BeforeHooks(stamped, k) ==
    LET ms == stamped IN RunHooks(ms[k].parameters.before_funcs, ms, k)

\* for func in model['parameters']['after_funcs']: func(model, modelList)
AfterHooks(updated, k) ==
    LET ms == updated IN RunHooks(ms[k].parameters.after_funcs, ms, k)

\* every pass recorded, whatever record_frequency says
StepRecordedAlways(acc, after, k, it, visit, draws) ==
    [ms |-> after,
     recorded |-> Append(acc.recorded, k),
     stepped |-> Append(acc.stepped, <<it, k>>),
     visits |-> Append(acc.visits, visit),
     draws |-> draws]

\* the end of the body: the model joins iterationModelList, or not
StepRecorded(acc, after, k, it, visit, draws) ==
    LET ms == after
    IN  [ms |-> ms,
         recorded |-> IF Recorded(ms[k], it) THEN Append(acc.recorded, k)
                      ELSE acc.recorded,
         stepped |-> Append(acc.stepped, <<it, k>>),
         visits |-> Append(acc.visits, visit),
         draws |-> draws]

\* _update_compartments has returned; the after_funcs run
\* (the history of the visit: the model as the body of the loop found it, as
\* the totals were taken of it, and as the transitions left it)
StepUpdated(acc, ms, totals, updated, k, it) ==
    LET u == updated
    IN  StepRecorded(acc, AfterHooks([ms EXCEPT ![k] = u.model], k), k, it,
                     [k |-> k, model |-> ms[k], totals |-> totals,
                      leaves |-> u.visits, entered |-> acc.ms[k],
                      updated |-> u.model],
                     u.draws)

\* totals = calc_totals(model); _update_compartments(model, totals)
StepHooked(acc, before, k, it, rnd) ==
    LET ms == before
        totals == calc_totals(ms[k])
    IN  StepUpdated(acc, ms, totals,
                    _update_compartments(ms[k], totals, rnd, acc.draws), k, it)

\* the body with the stamp put last, after the after_funcs
StepModelStampedLast(acc, k, it, idnt, rnd) ==
    LET r == StepHooked(acc, BeforeHooks(acc.ms, k), k, it, rnd)
    IN  [r EXCEPT !.ms[k] = Stamp(@, idnt, it + 1)]

\* the body of the inner loop for model number k, from the stamp on
StepModel(acc, k, it, idnt, rnd) ==
    StepHooked(acc,
               BeforeHooks([acc.ms EXCEPT ![k] = Stamp(@, idnt, it + 1)], k),
               k, it, rnd)

\* whether the inner loop leaves at model number k
OutOfRange(model, it) ==
    it < model.parameters.from \/ it >= model.parameters.to

\* the inner loop, for model in modelList, from model number k on
RECURSIVE IterateModels(_, _, _, _, _)
IterateModels(acc, k, it, idnt, rnd) ==
    IF k > Len(acc.ms) THEN acc
    ELSE IF OutOfRange(acc.ms[k], it) THEN acc
    ELSE LET next == StepModel(acc, k, it, idnt, rnd)
         IN  IterateModels(next, k + 1, it, idnt, rnd)

RECURSIVE AnyBad(_)
AnyBad(groups) ==
    IF groups = <<>> THEN FALSE
    ELSE (Has(Head(groups), "compartments")
          /\ \E i \in 1..Len(Head(groups).compartments) :
                 IsBad(Head(groups).compartments[i][2]))
         \/ AnyBad(Tail(groups))

\* an evaluation raised while the models were stepped
Raised(ms) == \E k \in 1..Len(ms) : AnyBad(traverse(ms[k]))

WorkModels == List([k \in 1..Len(work) |-> heap[work[k]]])

\* writes the working models ms back to their objects
Store(h, addrs, ms) ==
    List([a \in 1..Len(h) |->
             IF \E k \in 1..Len(addrs) : addrs[k] = a
             THEN ms[CHOOSE k \in 1..Len(addrs) : addrs[k] = a]
             ELSE h[a]])

(***************************************************************************)
(* The table flattener.  A str the code builds is the sequence of the      *)
(* pieces it is built of: 'name_' + str(0) is <<"name_", "0">>.            *)
(***************************************************************************)
Digits == <<"0", "1", "2", "3", "4", "5", "6", "7", "8", "9">>

\* str(i), i a natural number
RECURSIVE str(_)
str(i) ==
    IF i < 10 THEN <<Digits[i + 1]>>
    ELSE Append(str(i \div 10), Digits[(i % 10) + 1])

\* sep.join(strings)
RECURSIVE join(_, _)
join(sep, strings) ==
    IF Len(strings) <= 1 THEN strings
    ELSE <<Head(strings), sep>> \o join(sep, Tail(strings))

\* concat_names is None, or <<sep>> for the str sep; as a condition it is
\* false when None and when the empty str
Truthy(concat_names) == concat_names # None /\ concat_names[1] # ""

\* group['ident'] and group['iteration'], where the group has them
IdentsOf(group, ident_, iter_) ==
    (IF Has(group, "ident") THEN <<ident_>> ELSE <<>>)
    \o (IF Has(group, "iteration") THEN <<iter_>> ELSE <<>>)

\* the body of the loop of _get_header: st is [biggest, current, firstName, i]
HeaderOfGroup(st, group, concat_names) ==
    LET counted == Has(group, "name")
                   /\ ~(Truthy(concat_names) /\ ~st.firstName)
        current == st.current
                   \o IdentsOf(group, <<"ident">>, <<"iter">>)
                   \o (IF counted
                       THEN IF Truthy(concat_names) /\ st.firstName
                            THEN << <<"name">> >>
                            ELSE << <<"name_">> \o str(st.i) >>
                       ELSE <<>>)
                   \o (IF Has(group, "compartments")
                       THEN DictKeys(group.compartments) ELSE <<>>)
    IN  [biggest |-> IF Has(group, "compartments")
                        /\ Len(current) > Len(st.biggest)
                     THEN current ELSE st.biggest,
         current |-> IF Has(group, "compartments") THEN <<>> ELSE current,
         firstName |-> st.firstName /\ ~counted,
         i |-> IF counted THEN st.i + 1 ELSE st.i]

\* for group in traverse(model): left is <<st, groups to come>>
RECURSIVE HeaderOfGroups(_, _)
HeaderOfGroups(left, concat_names) ==
    IF left[2] = <<>> THEN left[1]
    ELSE HeaderOfGroups(<<HeaderOfGroup(left[1], Head(left[2]), concat_names),
                          Tail(left[2])>>, concat_names)

_get_header(model, concat_names) ==
    HeaderOfGroups(<<[biggest |-> <<>>, current |-> <<>>, firstName |-> TRUE,
                      i |-> 0],
                     traverse(model)>>, concat_names).biggest

\* prev[:max(len(prev) - len(cur), 0)] + cur
Padded(prev, cur) ==
    SubSeq(prev, 1, IF Len(prev) > Len(cur) THEN Len(prev) - Len(cur) ELSE 0)
    \o cur

\* the values in the order of the keys, the last first
DictValuesReversed(d) == List([i \in 1..Len(d) |-> d[Len(d) + 1 - i][2]])

\* for key, val in group['compartments'].items(): current.append(val)
DictValues(d) == List([i \in 1..Len(d) |-> d[i][2]])

\* the row of a group with compartments
RowOf(group, prevIdents, idents, prevNames, names, concat_names) ==
    Padded(prevIdents, idents)
    \o (IF concat_names = None THEN Padded(prevNames, names)
        ELSE <<join(concat_names[1], Padded(prevNames, names))>>)
    \o DictValues(group.compartments)

\* the body of the loop of model_to_table: st is [table, idents, prevIdents,
\* names, prevNames, sameIdents, sameNames]; prevIdents is idents, one list
\* under two names, while sameIdents, and so for the names
RowOfGroup(st, group, concat_names) ==
    LET idents == st.idents \o IdentsOf(group, group.ident, group.iteration)
        prevIdents == IF st.sameIdents THEN idents ELSE st.prevIdents
        names == st.names
                 \o (IF Has(group, "name") THEN <<group.name>> ELSE <<>>)
        prevNames == IF st.sameNames THEN names ELSE st.prevNames
    IN  IF Has(group, "compartments")
        THEN [table |-> Append(st.table,
                               RowOf(group, prevIdents, idents, prevNames,
                                     names, concat_names)),
              idents |-> <<>>,
              prevIdents |-> IF Len(prevIdents) < Len(idents) THEN idents
                             ELSE prevIdents,
              names |-> <<>>,
              prevNames |-> IF Len(prevNames) < Len(names) THEN names
                            ELSE prevNames,
              sameIdents |-> FALSE,
              sameNames |-> FALSE]
        ELSE [st EXCEPT !.idents = idents, !.prevIdents = prevIdents,
                        !.names = names, !.prevNames = prevNames]

\* for group in traverse(model): left is <<st, groups to come>>
RECURSIVE RowsOfGroups(_, _)
RowsOfGroups(left, concat_names) ==
    IF left[2] = <<>> THEN left[1]
    ELSE RowsOfGroups(<<RowOfGroup(left[1], Head(left[2]), concat_names),
                        Tail(left[2])>>, concat_names)

model_to_table(model, concat_names) ==
    RowsOfGroups(<<[table |-> <<>>, idents |-> <<>>, prevIdents |-> <<>>,
                    names |-> <<>>, prevNames |-> <<>>, sameIdents |-> TRUE,
                    sameNames |-> TRUE],
                   traverse(model)>>, concat_names).table

\* for model in modelList: table += model_to_table(model, concat_names)
RECURSIVE RowsOfModels(_, _)
RowsOfModels(left, concat_names) ==
    IF left[2] = <<>> THEN left[1]
    ELSE RowsOfModels(<<left[1] \o model_to_table(Head(left[2]), concat_names),
                        Tail(left[2])>>, concat_names)

modelList_to_table(modelList, header, concat_names) ==
    RowsOfModels(<<IF header THEN <<_get_header(modelList[1], concat_names)>>
                   ELSE <<>>,
                   modelList>>, concat_names)

\* for modelList in modelListSeries: the rows of modelList_to_table
RECURSIVE RowsOfSeries(_, _)
RowsOfSeries(left, concat_names) ==
    IF left[2] = <<>> THEN left[1]
    ELSE RowsOfSeries(<<left[1] \o modelList_to_table(Head(left[2]), FALSE,
                                                     concat_names),
                        Tail(left[2])>>, concat_names)

series_to_table(modelListSeries, header, concat_names) ==
    RowsOfSeries(<<IF header
                   THEN <<_get_header(modelListSeries[1][1], concat_names)>>
                   ELSE <<>>,
                   modelListSeries>>, concat_names)

(***************************************************************************)
(* The caller's models.                                                    *)
(***************************************************************************)
Half == <<1, 2>>
Quarter == <<1, 4>>

SIR(s, i, r) == << <<nS, Num(s)>>, <<nI, Num(i)>>, <<nR, Num(r)>> >>

\* the simple model of the documentation, with small numbers
Simple(name, parameters) ==
    [name |-> name,
     compartments |-> SIR(6, 2, 0),
     transitions |-> << <<Key(nS, nI), Half>>, <<Key(nI, nR), Half>> >>,
     parameters |-> parameters]

Schedule(f, t, freq, first, last) ==
    [from |-> f, to |-> t, record_frequency |-> freq,
     record_first |-> first, record_last |-> last, discrete |-> TRUE]

\* schedules of a model run on its own
Schedules ==
    {Schedule(f, t, freq, first, last) :
        f \in (0 - MaxBelow)..MaxFrom, t \in (0 - MaxBelow)..MaxTo,
        freq \in 1..MaxFreq,
        first \in BOOLEAN, last \in BOOLEAN}

\* schedules of the models of a list of two
ListSchedules ==
    {Schedule(f, t, freq, first, last) :
        f \in 0..MaxFrom, t \in 1..MaxListTo, freq \in {1, MaxFreq},
        first \in BOOLEAN, last \in BOOLEAN}

\* a model run for MaxIter iterations, every one of them recorded
Run(parameters) ==
    RecUpdate([to |-> MaxIter, record_frequency |-> 1], parameters)

Hooked(model, where) ==
    [model EXCEPT !.parameters =
        RecUpdate(@, [reduce_infectivity |-> Half]
                     @@ (where :> <<"reduce_infectivity">>))]

\* the hook registered, the parameter reduce_infectivity left at its default
Registered(model, where) ==
    [model EXCEPT !.parameters =
        RecUpdate(@, where :> <<"reduce_infectivity">>)]

\* two branches; the first overrides S_I and declares R_S
Branches(parameters) ==
    [name |-> "Town",
     transitions |-> << <<Key(nI, nR), Half>>, <<Key(nS, nI), Half>> >>,
     parameters |-> parameters,
     groups |-> <<
        [name |-> "Male",
         transitions |-> << <<Key(nS, nI), Quarter>>, <<Key(nR, nS), Half>> >>,
         compartments |-> SIR(4, 4, 0)],
        [name |-> "Female",
         compartments |-> SIR(4, 0, 4)] >>]

\* three levels, in the shape of the "complicated" model of the tests
Levels(parameters) ==
    [name |-> "Van Wyks Dorp",
     parameters |-> parameters,
     groups |-> <<
        [transitions |-> << <<Key(nI, nR), Half>> >>,
         groups |-> <<
            [name |-> "Male",
             transitions |-> << <<Key(nS, nI), Half>> >>,
             groups |-> <<
                [name |-> "0-50", compartments |-> SIR(3, 1, 0)],
                [name |-> "50-100",
                 transitions |-> << <<Key(nI, nR), Quarter>> >>,
                 compartments |-> SIR(2, 2, 0)] >>],
            [name |-> "Female",
             transitions |-> << <<Key(nS, nI), Quarter>> >>,
             groups |-> <<
                [name |-> "0-50", compartments |-> SIR(4, 4, 0)] >>] >>] >>]

\* a group below the root with parameters of its own
Overriding(parameters, first) ==
    LET own == [parameters |-> [discrete |-> TRUE]]
        leaf(name) == [name |-> name, compartments |-> SIR(4, 2, 2)]
    IN  [name |-> "Town",
         transitions |-> << <<Key(nI, nR), Quarter>> >>,
         parameters |-> parameters,
         groups |-> << IF first THEN leaf("Male") @@ own ELSE leaf("Male"),
                       IF first THEN leaf("Female") ELSE leaf("Female") @@ own >>]

\* births, and deaths when dying
Vital(parameters, dying) ==
    [name |-> "Vital",
     compartments |-> << <<nB, Num(0)>>, <<nS, Num(4)>>, <<nI, Num(4)>>,
                         <<nD, Num(0)>> >>,
     transitions |-> << <<Key(nB, nS), Quarter>> >>
                     \o (IF dying THEN << <<Key(nI, nD), Quarter>> >> ELSE <<>>),
     parameters |-> parameters]

\* overrides in the shape of those of the "corona" models of the tests: a
\* rule for one transition, a hook list, and a key the defaults do not have
Corona(parameters) ==
    Simple("Urban informal",
           RecUpdate(parameters,
                     [transition_funcs |->
                          << <<Key(nS, nI), "delta_S_I1">>,
                             <<Key(nI, nR), "delta_S_I">> >>,
                      reduce_infectivity |-> Half,
                      after_funcs |-> <<"reduce_infectivity">>,
                      scenario |-> "lockdown"]))

\* stages of infection and of treatment, the dead counted by cause, in the
\* shape of the "granich" model of the tests, here for two groups
Granich(parameters) ==
    LET stages(s, i1, i2, t1) ==
            << <<nS, Num(s)>>, <<nI1, Num(i1)>>, <<nI2, Num(i2)>>,
               <<nT1, Num(t1)>>, <<nD, Num(0)>>, <<nDI, Num(0)>>,
               <<nB, Num(0)>> >>
    IN  [name |-> "Granich_et_al_2009",
         parameters |-> RecUpdate(parameters,
                                  [treatment_infectiousness |-> Half]),
         transitions |-> << <<Key(nS, nI1), Quarter>>, <<Key(nI1, nI2), Half>>,
                            <<Key(nI1, nT1), Quarter>>, <<Key(nI2, nDI), Half>>,
                            <<Key(nS, nD), Quarter>>, <<Key(nB, nS), Quarter>> >>,
         groups |-> << [name |-> "Male", compartments |-> stages(8, 4, 4, 0)],
                       [name |-> "Female",
                        compartments |-> stages(4, 4, 0, 8)] >>]

\* the exposed before the infectious, in the shape of the "corona" models
Exposed(parameters) ==
    [name |-> "Rural",
     parameters |-> parameters,
     compartments |-> << <<nS, Num(8)>>, <<nE, Num(4)>>, <<nE1, Num(0)>>,
                         <<nI, Num(2)>>, <<nI1, Num(2)>> >>,
     transitions |-> << <<Key(nS, nE), Half>>, <<Key(nS, nE1), Quarter>>,
                        <<Key(nE, nI), Half>>, <<Key(nE1, nI1), Half>> >>]

\* a chain of n named groups above a leaf
RECURSIVE Nested(_, _)
Nested(n, leaf) ==
    IF n = 0 THEN leaf
    ELSE [name |-> IF n = 1 THEN "Male" ELSE "Rural",
          groups |-> <<Nested(n - 1, leaf)>>]

\* sibling branches of different depths: one leaf right under the root, the
\* other n named groups further down, the one or the other first
Uneven(parameters, n, deepFirst) ==
    LET deep == Nested(n, [name |-> "0-50", compartments |-> SIR(4, 4, 0)])
        shallow == [name |-> "Female", compartments |-> SIR(4, 2, 2)]
    IN  [name |-> "Town",
         parameters |-> parameters,
         transitions |-> << <<Key(nS, nI), Half>>, <<Key(nI, nR), Quarter>> >>,
         groups |-> IF deepFirst THEN <<deep, shallow>>
                    ELSE <<shallow, deep>>]

\* a population that dies out in the first iteration, all of it, or that is
\* empty from the start, with new infections by the one rule or the other
Extinct(parameters, rule, s, i) ==
    [name |-> "Ghost town",
     compartments |-> << <<nS, Num(s)>>, <<nI, Num(i)>>, <<nD, Num(0)>> >>,
     transitions |-> << <<Key(nS, nD), Num(1)>>, <<Key(nS, nI), Half>> >>
                     \o (IF i > 0 THEN << <<Key(nI, nD), Num(1)>> >>
                         ELSE <<>>),
     parameters |-> RecUpdate(parameters,
                              [transition_funcs |->
                                   << <<Key(nS, nI), rule>> >>])]

\* a run of fractions stops after two iterations: in a third one the exact
\* fractions no longer fit the integers
Short(parameters) ==
    IF parameters.discrete THEN parameters
    ELSE RecUpdate(parameters, [to |-> 2])

Trees ==
    LET ps == {Short(Run([discrete |-> d])) : d \in BOOLEAN}
    IN  {Simple("Simple model", p) : p \in ps}
        \cup {Hooked(Simple("Simple model", p), w) :
                 p \in ps, w \in {"before_funcs", "after_funcs"}}
        \cup {Branches(p) : p \in ps}
        \cup {Hooked(Branches(p), "after_funcs") : p \in ps}
        \cup {Levels(p) : p \in ps}
        \cup {Overriding(Run(<<>>), first) : first \in BOOLEAN}
        \cup {Vital(p, dying) : p \in ps, dying \in BOOLEAN}
        \cup {Simple("Simple model", RecUpdate(p, [noise |-> Half])) : p \in ps}
        \cup {Corona(p) : p \in ps}
        \cup {Granich(Run([discrete |-> TRUE])),
              Exposed(Run([discrete |-> TRUE])),
              Exposed(Short(Run([discrete |-> FALSE]))),
              Hooked(Exposed(Run([discrete |-> TRUE])), "after_funcs")}
        \cup {Registered(Simple("Simple model", p), w) :
                 p \in ps, w \in {"before_funcs", "after_funcs"}}
        \cup {Uneven(Run([discrete |-> TRUE]), n, deepFirst) :
                 n \in 1..MaxNest, deepFirst \in BOOLEAN}
        \cup {Extinct(Run([discrete |-> TRUE]), rule, c, i) :
                 rule \in {"delta_S_I", "delta_S_I1"}, c \in {0, 4},
                 i \in {0, 2}}
        \cup {Extinct(Run([discrete |-> FALSE, noise |-> Half]),
                      "delta_S_I", 4, 0)}

(***************************************************************************)
(* The state machine.                                                      *)
(***************************************************************************)
\* no resolver called on its own
ResolverIdle ==
    /\ store = <<>>
    /\ argument = 0
    /\ results = <<>>
    /\ mutations = 0
    /\ given = <<>>

\* no table made
TableIdle ==
    /\ table = <<>>
    /\ tabled = None

\* no pool of workers
PoolIdle ==
    /\ submitted = <<>>
    /\ processes = 0
    /\ started = 0
    /\ running = {}
    /\ output = <<>>
    /\ finished = <<>>
    /\ returned = None

InitWith(modelList, idnt) ==
    /\ ResolverIdle
    /\ TableIdle
    /\ PoolIdle
    /\ heap = modelList
    /\ input = [k \in 1..Len(modelList) |-> k]
    /\ work = <<>>
    /\ series = <<>>
    /\ pc = "start"
    /\ iteration = 0
    /\ to_max = 0
    /\ ident = idnt
    /\ stepped = <<>>
    /\ visits = <<>>
    /\ firstLen = 0

Init ==
    \/ \E p \in Schedules, idnt \in {None, <<0>>} :
           InitWith(<<Simple("Simple model", p)>>, idnt)
    \/ \E p \in ListSchedules, q \in ListSchedules :
           InitWith(<<Simple("London", p), Simple("Manchester", q)>>, None)
    \/ \E model \in Trees, idnt \in {None, <<0>>} : InitWith(<<model>>, idnt)

\* simulate, up to the call of _iterate_model
Simulate ==
    /\ pc = "start"
    /\ LET r == SimulateResults(heap, input)
       IN  /\ heap' = r.heap
           /\ work' = r.addrs
    /\ pc' = "first"
    /\ UNCHANGED <<input, series, iteration, to_max, ident, stepped, visits,
                   firstLen>>
    /\ UNCHANGED <<resolverVars, tableVars, poolVars>>

\* _iterate_model, up to the loop
RecordFirst ==
    /\ pc = "first"
    /\ LET ms == WorkModels
           stamped == List([k \in 1..Len(ms) |->
                               IF ms[k].parameters.record_first
                               THEN Stamp(ms[k], ident, 0) ELSE ms[k]])
           h1 == Store(heap, work, stamped)
           IsFirst(a) == h1[a].parameters.record_first
           c == Snapshot(h1, SelectSeq(work, IsFirst))
       IN  /\ heap' = c.heap
           /\ series' = IF Len(c.addrs) > 0 THEN <<c.addrs>> ELSE <<>>
           /\ firstLen' = IF Len(c.addrs) > 0 THEN 1 ELSE 0
           /\ iteration' = RangeFrom(ms)
           /\ to_max' = RangeTo(ms)
    /\ pc' = "iterating"
    /\ UNCHANGED <<input, work, ident, stepped, visits>>
    /\ UNCHANGED <<resolverVars, tableVars, poolVars>>

RECURSIVE AnyNoise(_)
AnyNoise(groups) ==
    IF groups = <<>> THEN FALSE
    ELSE (Has(Head(groups), "parameters")
          /\ Has(Head(groups).parameters, "noise")
          /\ Head(groups).parameters.noise # Num(0))
         \/ AnyNoise(Tail(groups))

\* the draws random.uniform can return in one pass of the loop
Rnds(ms) ==
    IF \E k \in 1..Len(ms) : AnyNoise(traverse(ms[k]))
    THEN [1..MaxDraws -> Us]
    ELSE {[i \in 1..MaxDraws |-> 0]}

\* the end of a pass: the models of iterationModelList are copied into
\* the series, c being the copies
Appended(r, copies) ==
    LET c == copies
    IN
    /\ heap' = c.heap
    /\ series' = IF Len(c.addrs) > 0 THEN Append(series, c.addrs) ELSE series
    /\ iteration' = iteration + 1
    /\ stepped' = stepped \o r.stepped
    /\ visits' = r.visits
    /\ pc' = "iterating"

\* r is what the inner loop left
Iterated(left) ==
    LET r == left
    IN
    IF Raised(r.ms)
    THEN /\ pc' = "raised"
         /\ UNCHANGED <<heap, series, iteration, stepped, visits>>
    ELSE Appended(r, Snapshot(Store(heap, work, r.ms),
                              List([i \in 1..Len(r.recorded) |->
                                       work[r.recorded[i]]])))

\* one pass of the loop over the iterations
Iterate ==
    /\ pc = "iterating"
    /\ iteration < to_max
    /\ \E rnd \in Rnds(WorkModels) :
          Iterated(IterateModels([ms |-> WorkModels, recorded |-> <<>>,
                                  stepped |-> <<>>, visits |-> <<>>,
                                  draws |-> 0],
                                 1, iteration, ident, rnd))
    /\ UNCHANGED <<input, work, to_max, ident, firstLen>>
    /\ UNCHANGED <<resolverVars, tableVars, poolVars>>

\* _iterate_model, after the loop
RecordLast ==
    /\ pc = "iterating"
    /\ iteration >= to_max
    /\ LET ms == WorkModels
           stamped == List([k \in 1..Len(ms) |->
                               IF ms[k].parameters.record_last
                               THEN Stamp(ms[k], ident, to_max) ELSE ms[k]])
           h1 == Store(heap, work, stamped)
           IsLast(a) == h1[a].parameters.record_last
           c == Snapshot(h1, SelectSeq(work, IsLast))
       IN  /\ heap' = c.heap
           /\ series' = IF Len(c.addrs) > 0 THEN Append(series, c.addrs)
                        ELSE series
    /\ pc' = "finished"
    /\ UNCHANGED <<input, work, iteration, to_max, ident, stepped, visits,
                   firstLen>>
    /\ UNCHANGED <<resolverVars, tableVars, poolVars>>

\* the series as the models themselves
SeriesModels ==
    List([i \in 1..Len(series) |->
             List([j \in 1..Len(series[i]) |-> heap[series[i][j]]])])

\* the separators of names: none, the one of the tests, the empty str
Separators == {None, <<"|">>, <<"">>}

\* the caller has a table made of the series simulate returned
SeriesToTable ==
    /\ pc = "finished"
    /\ series # <<>>
    /\ \E header \in BOOLEAN, concat_names \in Separators :
          /\ table' = series_to_table(SeriesModels, header, concat_names)
          /\ tabled' = [func |-> "series_to_table", of |-> 0,
                        header |-> header, concat_names |-> concat_names]
    /\ pc' = "tabled"
    /\ UNCHANGED <<heap, input, work, series, iteration, to_max, ident,
                   stepped, visits, firstLen>>
    /\ UNCHANGED <<resolverVars, poolVars>>

\* the caller has a table made of one element of the series
ModelListToTable ==
    /\ pc = "finished"
    /\ \E n \in 1..Len(series), concat_names \in Separators :
          /\ table' = modelList_to_table(SeriesModels[n], TRUE, concat_names)
          /\ tabled' = [func |-> "modelList_to_table", of |-> n,
                        header |-> TRUE, concat_names |-> concat_names]
    /\ pc' = "tabled"
    /\ UNCHANGED <<heap, input, work, series, iteration, to_max, ident,
                   stepped, visits, firstLen>>
    /\ UNCHANGED <<resolverVars, poolVars>>

Next ==
    \/ Simulate
    \/ RecordFirst
    \/ Iterate
    \/ RecordLast
    \/ SeriesToTable
    \/ ModelListToTable

Spec == Init /\ [][Next]_vars

(***************************************************************************)
(* The resolver called on its own: a caller holds an override mapping,     *)
(* calls _make_parameters with it, and changes what it was returned.       *)
(***************************************************************************)
\* no model simulated
StepperIdle ==
    /\ heap = <<>>
    /\ input = <<>>
    /\ work = <<>>
    /\ series = <<>>
    /\ pc = "resolver"
    /\ iteration = 0
    /\ to_max = 0
    /\ ident = None
    /\ stepped = <<>>
    /\ visits = <<>>
    /\ firstLen = 0

\* the override mappings: any of a scalar, a rule, a hook list and a key the
\* defaults do not have
Overrides ==
    {Mapping([key \in keys |->
                 CASE key = "to" -> MaxIter
                   [] key = "transition_funcs" ->
                          << <<Key(nS, nE), "delta_S_I1">> >>
                   [] key = "after_funcs" -> <<"reduce_infectivity">>
                   [] key = "scenario" -> "lockdown"]) :
        keys \in SUBSET {"to", "transition_funcs", "after_funcs", "scenario"}}

OverrideKeys(mapping) ==
    SelectSeq(ParameterKeys \o <<"scenario">>,
              LAMBDA key : key \in DOMAIN mapping)

InitResolver ==
    /\ StepperIdle
    /\ TableIdle
    /\ PoolIdle
    /\ \E mapping \in Overrides :
          /\ store = Allocated(DefaultObjects, mapping, OverrideKeys(mapping))
          /\ given = store
    /\ argument = Len(store)
    /\ results = <<>>
    /\ mutations = 0

\* parameters = _make_parameters(argument)
Resolve ==
    /\ Len(results) < MaxResolutions
    /\ LET r == ResolvedObjects(store, argument)
       IN  /\ store' = r.store
           /\ results' = Append(results, r.addr)
    /\ UNCHANGED <<argument, mutations, given, stepperVars, tableVars,
                   poolVars>>

\* the caller changes a list it finds in parameters it was returned:
\* parameters[key].append(mix_models)
MutateList ==
    /\ mutations < MaxMutations
    /\ \E n \in 1..Len(results) :
          \E a \in Reach(store, results[n]) :
             /\ store[a].kind = "list"
             /\ store' = [store EXCEPT ![a].items =
                                          Append(@, [val |-> "mix_models"])]
    /\ mutations' = mutations + 1
    /\ UNCHANGED <<argument, results, given, stepperVars, tableVars,
                   poolVars>>

\* the caller changes a mapping it finds in parameters it was returned:
\* parameters['to'] = 0, parameters['transition_funcs']['I_R'] = delta_S_I
MutateDict ==
    /\ mutations < MaxMutations
    /\ \E n \in 1..Len(results) :
          \E a \in Reach(store, results[n]) :
             /\ store[a].kind = "dict"
             /\ store' = [store EXCEPT ![a].items =
                              IF a = results[n]
                              THEN DictSet(@, "to", [val |-> 0])
                              ELSE DictSet(@, Key(nI, nR),
                                           [val |-> "delta_S_I"])]
    /\ mutations' = mutations + 1
    /\ UNCHANGED <<argument, results, given, stepperVars, tableVars,
                   poolVars>>

NextResolver == Resolve \/ MutateList \/ MutateDict

SpecResolver == InitResolver /\ [][NextResolver]_vars

(***************************************************************************)
(* simulate as a function of its arguments and of what random.uniform      *)
(* draws: draws holds, for each pass of the loop over the iterations, the   *)
(* draws of that pass.  A deep copy of a value is the value.                *)
(***************************************************************************)
\* the models of ms numbered in ks
Selected(ms, ks) == List([i \in 1..Len(ks) |-> ms[ks[i]]])

\* stamped with it, and with the identifier, where flag is set
StampedWhere(ms, flag, idnt, it) ==
    List([k \in 1..Len(ms) |->
             IF ms[k].parameters[flag] THEN Stamp(ms[k], idnt, it) ELSE ms[k]])

\* modelListSeries with the models of ms that have flag set appended, if any
RecordedWhere(modelListSeries, ms, flag) ==
    LET ks == SelectSeq(List([k \in 1..Len(ms) |-> k]),
                        LAMBDA k : ms[k].parameters[flag])
    IN  IF ks = <<>> THEN modelListSeries
        ELSE Append(modelListSeries, Selected(ms, ks))

\* the end of a pass: left is [ms, series, it, draws], passed is what the
\* inner loop left
Passed(left, passed) ==
    LET r == passed
    IN  [ms |-> r.ms,
         series |-> IF r.recorded = <<>> THEN left.series
                    ELSE Append(left.series, Selected(r.ms, r.recorded)),
         it |-> left.it + 1,
         draws |-> Tail(left.draws)]

\* for iteration in range(from_, to_)
RECURSIVE Passes(_, _, _)
Passes(left, to_max_, idnt) ==
    IF left.it >= to_max_ THEN left
    ELSE Passes(Passed(left,
                       IterateModels([ms |-> left.ms, recorded |-> <<>>,
                                      stepped |-> <<>>, visits |-> <<>>,
                                      draws |-> 0],
                                     1, left.it, idnt, Head(left.draws))),
                to_max_, idnt)

\* what the loop left, stamped and recorded last
IteratedLast(looped, to_max_, idnt) ==
    LET l == looped
    IN  RecordedWhere(l.series,
                      StampedWhere(l.ms, "record_last", idnt, to_max_),
                      "record_last")

\* the models stamped and recorded first, then the loop and the rest
IteratedFirst(first, idnt, draws) ==
    LET ms == first
    IN  IteratedLast(Passes([ms |-> ms,
                             series |-> RecordedWhere(<<>>, ms, "record_first"),
                             it |-> RangeFrom(ms),
                             draws |-> draws],
                            RangeTo(ms), idnt),
                     RangeTo(ms), idnt)

_iterate_model(modelList, idnt, draws) ==
    IteratedFirst(StampedWhere(modelList, "record_first", idnt, 0), idnt,
                  draws)

simulate(modelList, idnt, draws) ==
    _iterate_model(List([k \in 1..Len(modelList) |-> Resolved(modelList[k])]),
                   idnt, draws)


\* the draws random.uniform can make in a call of simulate
DrawsOf(modelList) ==
    LET ms == List([k \in 1..Len(modelList) |-> Resolved(modelList[k])])
        passes == IF RangeTo(ms) > RangeFrom(ms)
                  THEN RangeTo(ms) - RangeFrom(ms) ELSE 0
    IN  [1..passes -> Rnds(ms)]

\* the worker's call of simulate on a task of another worker's leftovers:
\* the models as the task that ended last left them
_simulate_shared(m, outputs, ended, draws) ==
    IF ended = <<>> THEN simulate(m[1], <<m[2]>>, draws)
    ELSE LET r == outputs[ended[Len(ended)]][1]
         IN  IF r # <<>> /\ DrawsOf(r[Len(r)]) = DrawsOf(m[1])
             THEN simulate(r[Len(r)], <<m[2]>>, draws)
             ELSE simulate(m[1], <<m[2]>>, draws)

\* _simulate(m), in a worker: m is the worker's own copy of the task
_simulate(m, outputs, ended, draws) == simulate(m[1], <<m[2]>>, draws)

\* mls_with_ident
mls_with_ident(modelListSeries) ==
    List([k \in 1..Len(modelListSeries) |-> <<modelListSeries[k], k - 1>>])

\* what the workers returned, put one after the other as they ended
ResultsAsEnded(outputs, ended) ==
    IF ended = <<>> THEN <<>>
    ELSE LET RECURSIVE Joined(_)
             Joined(left) ==
                 IF left[2] = <<>> THEN left[1]
                 ELSE Joined(<<left[1] \o outputs[Head(left[2])][1],
                               Tail(left[2])>>)
         IN  Joined(<< <<>>, ended >>)

\* for r in output: results += r, output being in the order of the tasks
RECURSIVE ResultsOf(_)
ResultsOf(left) ==
    IF left[2] = <<>> THEN left[1]
    ELSE ResultsOf(<<left[1] \o Head(left[2])[1], Tail(left[2])>>)
Results(outputs, ended) == ResultsOf(<< <<>>, outputs >>)

(***************************************************************************)
(* simulate_series: the lists are handed to the workers of a pool in the   *)
(* order they were given; a worker runs simulate on its own copy of the    *)
(* list; the workers end in any order.                                     *)
(***************************************************************************)
\* the lists a caller may give
Submittable ==
    {<<Simple("Simple model", Run([discrete |-> TRUE]))>>,
     <<Simple("Simple model",
              [to |-> 1, record_frequency |-> 1, discrete |-> TRUE,
               noise |-> Half])>>,
     <<Simple("London", Schedule(0, MaxListTo, 1, TRUE, FALSE)),
       Simple("Manchester", Schedule(0, 1, 1, FALSE, TRUE))>>,
     <<Branches(Run([discrete |-> TRUE]))>>}

InitPool ==
    /\ StepperIdle
    /\ ResolverIdle
    /\ TableIdle
    /\ \E n \in 1..MaxLists : submitted \in [1..n -> Submittable]
    /\ processes \in 1..MaxProcesses
    /\ started = 0
    /\ running = {}
    /\ output = [k \in 1..Len(submitted) |-> None]
    /\ finished = <<>>
    /\ returned = None

PoolOnly == UNCHANGED <<stepperVars, resolverVars, tableVars>>

\* pool.map: the next task goes to a worker that is free
StartTask ==
    /\ started < Len(submitted)
    /\ Cardinality(running) < processes
    /\ started' = started + 1
    /\ running' = running \cup {started + 1}
    /\ UNCHANGED <<submitted, processes, output, finished, returned>>
    /\ PoolOnly

\* a worker ends its task: _simulate(m) returns
EndTask ==
    /\ \E k \in running :
          /\ \E draws \in DrawsOf(submitted[k]) :
                 output' = [output EXCEPT ![k] =
                               <<_simulate(mls_with_ident(submitted)[k], output,
                                           finished, draws)>>]
          /\ running' = running \ {k}
          /\ finished' = Append(finished, k)
    /\ UNCHANGED <<submitted, processes, started, returned>>
    /\ PoolOnly

\* pool.map returns when every task has ended; the results are joined
Join ==
    /\ returned = None
    /\ Len(finished) = Len(submitted)
    /\ returned' = <<Results(output, finished)>>
    /\ UNCHANGED <<submitted, processes, started, running, output, finished>>
    /\ PoolOnly

NextPool == StartTask \/ EndTask \/ Join

SpecPool == InitPool /\ [][NextPool]_vars

(***************************************************************************)
(* What the properties speak of.                                           *)
(***************************************************************************)
\* the model the caller passed as number k, and the snapshot at <<i, j>>:
\* model number j of element number i of the series
Caller(k) == heap[input[k]]
Entries ==
    UNION {{<<i, j>> : j \in 1..Len(series[i])} : i \in 1..Len(series)}
SnapshotOf(e) == heap[series[e[1]][e[2]]]
Finished == pc = "finished"

\* the keys of the transitions declared anywhere in a model
TransitionKeys(model) ==
    LET gs == traverse(model)
    IN  UNION {IF Has(gs[n], "transitions")
               THEN {gs[n].transitions[m][1] :
                        m \in 1..Len(gs[n].transitions)}
               ELSE {} : n \in 1..Len(gs)}

NoDead(model) ==
    \A key \in TransitionKeys(model) :
        from_(key)[1] # "D" /\ to_(key)[1] # "D"

NoHooks(model) ==
    \A where \in {"before_funcs", "after_funcs"} :
        Has(model, "parameters") /\ Has(model.parameters, where)
            => model.parameters[where] = <<>>

PopulationOf(model) == DictGet(calc_totals(model), nN)

Started == pc \in {"iterating", "finished"}
Single == Len(input) = 1
\* the resolved parameters of model number k
ParametersOf(k) == heap[work[k]].parameters
Has_(stamp) == \E e \in Entries : SnapshotOf(e).iteration = stamp

\* C2: at each iteration i of the controlling range every model with
\* from <= i < to is stepped, whatever the other models' ranges are.
C2_InRangeStepped ==
    Started =>
        \A i \in RangeFrom(WorkModels)..(iteration - 1), k \in 1..Len(work) :
            ParametersOf(k).from <= i /\ i < ParametersOf(k).to
                => \E n \in 1..Len(stepped) : stepped[n] = <<i, k>>

\* C3, as stated: a single model's series holds a snapshot stamped "to"
\* if and only if record_last is set.
C3_ToIffRecordLast ==
    Finished /\ Single =>
        (Has_(ParametersOf(1).to) <=> ParametersOf(1).record_last)

\* C3, amended: a single model's series holds a snapshot stamped "to" if
\* and only if record_last is set, or the loop ran and "to" is a multiple
\* of record_frequency, or "to" is 0 and record_first is set.
C3_ToStamped ==
    Finished /\ Single =>
        LET p == ParametersOf(1)
        IN  Has_(p.to) <=>
                \/ p.record_last
                \/ p.from < p.to /\ p.to % p.record_frequency = 0
                \/ p.to = 0 /\ p.record_first

\* record_last is not set, and the last pass of the loop is recorded
C3_Witness ==
    /\ Finished /\ Single
    /\ ~ParametersOf(1).record_last
    /\ ParametersOf(1).from < ParametersOf(1).to
    /\ ParametersOf(1).to > 0
    /\ Has_(ParametersOf(1).to)

\* the compartments of a model, group by group
CompartmentsOf(model) ==
    LET gs == traverse(model)
    IN  [n \in 1..Len(gs) |->
            IF Has(gs[n], "compartments") THEN gs[n].compartments ELSE <<>>]

\* the first element of the series is stamped 0 and holds what the caller
\* passed
FirstIsInitial ==
    /\ Len(series) > 0
    /\ SnapshotOf(<<1, 1>>).iteration = 0
    /\ CompartmentsOf(SnapshotOf(<<1, 1>>)) = CompartmentsOf(Caller(1))

\* C4, as stated: a single model's series holds a snapshot stamped 0 if and
\* only if record_first is set, and then it is the first element of the
\* series and holds the unmodified initial compartments.
C4_ZeroIffRecordFirst ==
    Finished /\ Single =>
        /\ Has_(0) <=> ParametersOf(1).record_first
        /\ Has_(0) => FirstIsInitial

\* C4, amended: a single model's series holds a snapshot stamped 0 if and
\* only if record_first is set, or record_last is set and "to" is 0, or
\* "from" is negative and "to" is not; and when record_first is set the first
\* element of the series is stamped 0 and holds the unmodified initial
\* compartments.
C4_ZeroStamped ==
    Finished /\ Single =>
        LET p == ParametersOf(1)
        IN  /\ Has_(0) <=>
                  \/ p.record_first
                  \/ p.record_last /\ p.to = 0
                  \/ p.from < 0 /\ p.to >= 0
            /\ p.record_first => FirstIsInitial

\* record_first is set and the run has since changed the compartments
C4_Witness ==
    /\ Finished /\ Single
    /\ ParametersOf(1).record_first
    /\ Len(series) >= 3
    /\ CompartmentsOf(heap[work[1]]) # CompartmentsOf(Caller(1))

\* the stamps of a single model's series, and those the loop appended
Stamps == [i \in 1..Len(series) |-> SnapshotOf(<<i, 1>>).iteration]
LoopStamps ==
    SubSeq(Stamps, firstLen + 1,
           Len(series) - (IF ParametersOf(1).record_last THEN 1 ELSE 0))
Due ==
    {k \in (ParametersOf(1).from + 1)..ParametersOf(1).to :
        k % ParametersOf(1).record_frequency = 0}
Scheduled ==
    /\ \A n \in 1..Len(Stamps), m \in 1..Len(Stamps) :
           n < m => Stamps[n] <= Stamps[m]
    /\ Len(LoopStamps) = Cardinality(Due)
    /\ \A n \in 1..Len(LoopStamps) : LoopStamps[n] \in Due
    /\ \A n \in 1..Len(LoopStamps), m \in 1..Len(LoopStamps) :
           n < m => LoopStamps[n] < LoopStamps[m]

\* C5, as stated: for a single model with from >= 0 the stamps of the
\* series never decrease, and the loop appends exactly one snapshot for each
\* k with from < k <= to and k mod record_frequency = 0, in increasing order.
C5_ScheduleFromZero ==
    Finished /\ Single /\ ParametersOf(1).from >= 0 => Scheduled

\* C5, amended: the same, for a single model with from >= 0 and to >= 0.
C5_Schedule ==
    Finished /\ Single /\ ParametersOf(1).from >= 0 /\ ParametersOf(1).to >= 0
        => Scheduled

\* first and last recorded, two snapshots or more from the loop, and an
\* iteration that is not recorded
C5_Witness ==
    /\ Finished /\ Single
    /\ ParametersOf(1).from >= 0
    /\ ParametersOf(1).record_first /\ ParametersOf(1).record_last
    /\ ParametersOf(1).record_frequency > 1
    /\ Len(LoopStamps) >= 2

\* C6: when record_last is set for a model, its final snapshot is stamped
\* with the model's own "to", also when the other models of the list have
\* another "to".
C6_LastStampedOwnTo ==
    Finished =>
        \A k \in 1..Len(input) :
            ParametersOf(k).record_last =>
                \E j \in 1..Len(series[Len(series)]) :
                    /\ SnapshotOf(<<Len(series), j>>).name = Caller(k).name
                    /\ SnapshotOf(<<Len(series), j>>).iteration
                           = ParametersOf(k).to

(***************************************************************************)
(* Ownership of the objects.                                               *)
(***************************************************************************)
Addresses(seq) == {seq[n] : n \in 1..Len(seq)}
SeriesAddresses == {series[e[1]][e[2]] : e \in Entries}

\* no object of the series is a working model or a model of the caller, and
\* no object is in the series twice
Unshared ==
    /\ SeriesAddresses \cap (Addresses(work) \cup Addresses(input)) = {}
    /\ \A e \in Entries, f \in Entries :
           series[e[1]][e[2]] = series[f[1]][f[2]] => e = f

\* what is in the series stays there, and stays as it is
Frozen ==
    \A i \in 1..Len(series) :
        /\ Len(series') >= i
        /\ series'[i] = series[i]
        /\ \A j \in 1..Len(series[i]) :
               heap'[series[i][j]] = heap[series[i][j]]

\* C7: every snapshot of the series is an independent deep copy: it shares
\* no object with the working models, and once it is appended no later
\* iteration, hook or final recording changes anything in it.
C7_SnapshotsIndependent == [](Unshared) /\ [][Frozen]_vars

\* a snapshot that the working model has left behind: after the snapshot
\* was taken a hook rewrote the transitions and the compartments moved on
C7_Witness ==
    /\ Finished
    /\ \E e \in Entries, k \in 1..Len(work) :
          /\ e[1] < Len(series)
          /\ SnapshotOf(e).name = heap[work[k]].name
          /\ Has(SnapshotOf(e), "transitions")
          /\ SnapshotOf(e).transitions # heap[work[k]].transitions
          /\ CompartmentsOf(SnapshotOf(e)) # CompartmentsOf(heap[work[k]])

\* C8: simulate never changes the models the caller passed: whatever the
\* iterations and the hooks do, the caller's compartments, transitions and
\* parameters stay as they were.
C8_InputUnchanged ==
    [][/\ input' = input
       /\ \A k \in 1..Len(input) : heap'[input[k]] = heap[input[k]]]_vars

\* a finished run in which a hook has rewritten the transitions of the
\* working model and the compartments have changed
C8_Witness ==
    /\ Finished
    /\ \E k \in 1..Len(input) :
          /\ ~NoHooks(Caller(k))
          /\ Has(Caller(k), "transitions")
          /\ heap[work[k]].transitions # Caller(k).transitions
          /\ CompartmentsOf(heap[work[k]]) # CompartmentsOf(Caller(k))

(***************************************************************************)
(* What a leaf inherits.                                                   *)
(***************************************************************************)
\* the leaves the dispatcher visited in the last pass, each with the model
\* it was called on
LeafVisits ==
    UNION {{[model |-> visits[n].model, leaf |-> visits[n].leaves[m],
             totals |-> visits[n].totals] :
               m \in 1..Len(visits[n].leaves)} : n \in 1..Len(visits)}

\* the group n levels down the path from the root
Ancestor(model, path, n) == GroupAt(model, SubSeq(path, 1, n))

\* the parameters of the groups on the path, the deeper ones over the others
RECURSIVE ParametersAlong(_, _, _)
ParametersAlong(model, path, n) ==
    IF n < 0 THEN <<>>
    ELSE IF Has(Ancestor(model, path, n), "parameters")
    THEN RecUpdate(ParametersAlong(model, path, n - 1),
                   Ancestor(model, path, n).parameters)
    ELSE ParametersAlong(model, path, n - 1)

\* C9: parameters declared on a group apply to its branch only: a node
\* outside the branch, visited later in the same iteration, is evaluated
\* with the parameters of its own ancestors.
C9_OwnBranchParameters ==
    \A v \in LeafVisits :
        v.leaf.parameters
            = ParametersAlong(v.model, v.leaf.path, Len(v.leaf.path))

Declares(group, key) ==
    Has(group, "transitions") /\ DictHas(group.transitions, key)
Levels_(path) == 0..Len(path)
DeclaredAlong(model, path) ==
    UNION {IF Has(Ancestor(model, path, n), "transitions")
           THEN Addresses(DictKeys(Ancestor(model, path, n).transitions))
           ELSE {} : n \in Levels_(path)}
Nearest(model, path, key) ==
    CHOOSE n \in Levels_(path) :
        /\ Declares(Ancestor(model, path, n), key)
        /\ \A m \in Levels_(path) :
               Declares(Ancestor(model, path, m), key) => m <= n

\* C10: the transitions applied to a leaf are those declared on the leaf and
\* on its ancestors, each with the coefficient declared nearest to the leaf;
\* what another branch declares or overrides is not among them.
C10_NearestWins ==
    \A v \in LeafVisits :
        LET t == v.leaf.t
            path == v.leaf.path
        IN  /\ Addresses(DictKeys(t)) = DeclaredAlong(v.model, path)
            /\ Len(t) = Cardinality(DeclaredAlong(v.model, path))
            /\ \A key \in DeclaredAlong(v.model, path) :
                   DictGet(t, key)
                       = DictGet(Ancestor(v.model, path,
                                          Nearest(v.model, path, key))
                                     .transitions, key)
            /\ DictKeys(v.leaf.deltas) = DictKeys(t)

\* two leaves of one model: the first overrides a coefficient it inherits
\* and declares a transition the second does not have
C10_Witness ==
    \E v \in LeafVisits, w \in LeafVisits :
        /\ v.model = w.model
        /\ v.leaf.path # w.leaf.path
        /\ \E key \in Addresses(DictKeys(v.leaf.t)) :
               ~DictHas(w.leaf.t, key)
        /\ \E key \in Addresses(DictKeys(v.leaf.t)) :
               /\ DictHas(w.leaf.t, key)
               /\ DictGet(w.leaf.t, key) # DictGet(v.leaf.t, key)
               /\ Nearest(v.model, v.leaf.path, key) > 0
               /\ Declares(v.model, key)

(***************************************************************************)
(* Parameter resolution.                                                   *)
(***************************************************************************)
\* the override mapping the caller gave model number k
OverridesOf(k) ==
    IF Has(Caller(k), "parameters") THEN Caller(k).parameters ELSE <<>>

Resolving == pc # "start"

\* C11: resolution merges the mapping-valued default transition_funcs with
\* the override's entries, key by key, every default rule not overridden
\* being kept; any other override replaces the default wholesale; a key the
\* defaults do not have is added; a key not overridden keeps its default.
C11_DeepMerge ==
    Resolving =>
        \A k \in 1..Len(work) :
            LET d == OverridesOf(k)
                p == ParametersOf(k)
                funcs == "transition_funcs"
            IN  /\ DOMAIN p = DOMAIN PARAMETERS \cup DOMAIN d
                /\ \A key \in DOMAIN PARAMETERS \ DOMAIN d :
                       p[key] = PARAMETERS[key]
                /\ \A key \in DOMAIN d \ {funcs} : p[key] = d[key]
                /\ funcs \in DOMAIN d =>
                       /\ Addresses(DictKeys(p[funcs]))
                              = Addresses(DictKeys(PARAMETERS[funcs]))
                                \cup Addresses(DictKeys(d[funcs]))
                       /\ \A key \in Addresses(DictKeys(d[funcs])) :
                              DictGet(p[funcs], key) = DictGet(d[funcs], key)
                       /\ \A key \in Addresses(DictKeys(PARAMETERS[funcs]))
                                         \ Addresses(DictKeys(d[funcs])) :
                              DictGet(p[funcs], key)
                                  = DictGet(PARAMETERS[funcs], key)

\* a model resolved whose overrides hold a rule for a key the defaults have
\* and one for a key they do not, a hook list, a scalar, and a key unknown
\* to the defaults
C11_Witness ==
    /\ Resolving
    /\ \E k \in 1..Len(work) :
          LET d == OverridesOf(k)
              p == ParametersOf(k)
          IN  /\ Has(d, "transition_funcs")
              /\ DictHas(d.transition_funcs, Key(nS, nI))
              /\ DictHas(d.transition_funcs, Key(nI, nR))
              /\ DictGet(p.transition_funcs, Key(nS, nI)) = "delta_S_I1"
              /\ DictGet(p.transition_funcs, Key(nS, nE)) = "delta_S_I"
              /\ DictGet(p.transition_funcs, kDefault) = "delta_X_Y"
              /\ p.after_funcs = <<"reduce_infectivity">>
              /\ p.to # PARAMETERS.to
              /\ \E key \in DOMAIN d : key \notin DOMAIN PARAMETERS

\* the objects one gets at from the objects at the addresses of seq
ReachOfAll(seq) == UNION {Reach(store, seq[n]) : n \in 1..Len(seq)}

\* C12: what the resolver returns shares no dict and no list with the
\* global PARAMETERS nor with the override mapping it was given, and, however
\* many calls are made and whatever is done to what they returned, PARAMETERS
\* and the override mapping stay as they were.
C12_NeverAliased ==
    /\ ReachOfAll(results)
           \cap (Reach(store, DefaultsAt) \cup Reach(store, argument)) = {}
    /\ \A a \in 1..Len(given) : store[a] = given[a]

(***************************************************************************)
(* The rule applied to a transition.                                       *)
(***************************************************************************)
\* whether delta is what the rule gives at the leaf of visit v for the
\* transition key with coefficient value: the rule's value, times what
\* random.uniform drew if there is noise, rounded if discrete
Gives(rule(_, _, _, _, _), v, key, value, delta) ==
    LET val == rule(key, value, v.leaf.compartments, v.totals, v.leaf.live)
        parameters == v.leaf.parameters
    IN  IF parameters.noise = Num(0)
        THEN delta = Discretized(val, parameters.discrete)
        ELSE \E u \in Us :
                 delta = Discretized(Noised(val, parameters.noise, u),
                                     parameters.discrete)

\* the same for the rule of that name
GivesNamed(func, v, key, value, delta) ==
    CASE func = "delta_S_I" -> Gives(delta_S_I, v, key, value, delta)
      [] func = "delta_S_I1" -> Gives(delta_S_I1, v, key, value, delta)
      [] func = "delta_birth_X" -> Gives(delta_birth_X, v, key, value, delta)
      [] func = "delta_X_Y" -> Gives(delta_X_Y, v, key, value, delta)

\* C13: for each effective transition at a leaf the dispatcher applies the
\* rule the resolved transition_funcs hold under exactly the transition's
\* key, and the rule under 'default' when they hold none; with the default
\* transition_funcs that is mass action for S_I and S_E, the weighted force
\* of infection for S_I1 and S_E1, the birth inflow for B_S and the
\* proportional flow for every other key.
C13_RuleOfKey ==
    \A v \in LeafVisits :
        LET funcs == v.leaf.parameters.transition_funcs
        IN  \A i \in 1..Len(v.leaf.t) :
                LET key == v.leaf.t[i][1]
                    value == v.leaf.t[i][2]
                    delta == DictGet(v.leaf.deltas, key)
                IN  /\ GivesNamed(IF \E j \in 1..Len(funcs) : funcs[j][1] = key
                                  THEN DictGet(funcs, key)
                                  ELSE DictGet(funcs, kDefault),
                                  v, key, value, delta)
                    /\ funcs = PARAMETERS.transition_funcs =>
                           IF key \in {Key(nS, nI), Key(nS, nE)}
                           THEN Gives(delta_S_I, v, key, value, delta)
                           ELSE IF key \in {Key(nS, nI1), Key(nS, nE1)}
                           THEN Gives(delta_S_I1, v, key, value, delta)
                           ELSE IF key = Key(nB, nS)
                           THEN Gives(delta_birth_X, v, key, value, delta)
                           ELSE Gives(delta_X_Y, v, key, value, delta)

\* a leaf stepped with a rule of its own for one of its transitions, the
\* change made being another than the default rule would have made
C13_Witness ==
    \E v \in LeafVisits :
        LET funcs == v.leaf.parameters.transition_funcs
            key == Key(nI, nR)
        IN  /\ DictHas(v.leaf.t, key)
            /\ DictHas(funcs, key)
            /\ DictGet(funcs, key) # DictGet(funcs, kDefault)
            /\ ~Gives(delta_X_Y, v, key, DictGet(v.leaf.t, key),
                      DictGet(v.leaf.deltas, key))

(***************************************************************************)
(* The totals.                                                             *)
(***************************************************************************)
\* the compartments of all the nodes of a model, one after the other
RECURSIVE CompartmentsOfAll(_)
CompartmentsOfAll(left) ==
    IF left[2] = <<>> THEN left[1]
    ELSE CompartmentsOfAll(<<IF Has(Head(left[2]), "compartments")
                             THEN left[1] \o Head(left[2]).compartments
                             ELSE left[1],
                             Tail(left[2])>>)
AllCompartments(model) == CompartmentsOfAll(<< <<>>, traverse(model) >>)

\* the sum of the values of items: left is <<sum, items to come>>
RECURSIVE SumOfValues(_)
SumOfValues(left) ==
    IF left[2] = <<>> THEN left[1]
    ELSE SumOfValues(<<RAdd(left[1], Head(left[2])[2]), Tail(left[2])>>)

\* the sum of the values of the items whose name is chosen
SumWhere(items, Chosen(_)) ==
    SumOfValues(<<Num(0), SelectSeq(items, LAMBDA item : Chosen(item[1]))>>)

Tabled == pc = "tabled"

\* the models the table was made of, in the order they were flattened
RECURSIVE Concatenated(_)
Concatenated(left) ==
    IF left[2] = <<>> THEN left[1]
    ELSE Concatenated(<<left[1] \o Head(left[2]), Tail(left[2])>>)
TabledModels ==
    IF tabled.func = "series_to_table"
    THEN Concatenated(<< <<>>, SeriesModels >>)
    ELSE SeriesModels[tabled.of]

\* the model the header was made of
HeaderModel == TabledModels[1]

\* the nodes of a model that bear compartments, in pre-order
LeafPaths(model) ==
    SelectSeq(TraversePaths(model, <<>>),
              LAMBDA path : Has(GroupAt(model, path), "compartments"))
LeavesOf(model) ==
    LET paths == LeafPaths(model)
    IN  List([n \in 1..Len(paths) |->
                 [model |-> model, path |-> paths[n],
                  compartments |-> GroupAt(model, paths[n]).compartments]])
RECURSIVE LeavesOfAll(_)
LeavesOfAll(left) ==
    IF left[2] = <<>> THEN left[1]
    ELSE LeavesOfAll(<<left[1] \o LeavesOf(Head(left[2])), Tail(left[2])>>)
TabledLeaves == LeavesOfAll(<< <<>>, TabledModels >>)

\* the rows below the header
Rows == IF tabled.header THEN Tail(table) ELSE table

\* the names of the named groups from the root down to the node at path
NamesAlong(model, path) ==
    LET named == SelectSeq(List([n \in 1..(Len(path) + 1) |-> n - 1]),
                           LAMBDA n : Has(Ancestor(model, path, n), "name"))
    IN  List([k \in 1..Len(named) |-> Ancestor(model, path, named[k]).name])

\* the cells of a row between the identifier and iteration of its model and
\* the values of its node
NameCells(row, leaf) ==
    SubSeq(row,
           Len(IdentsOf(leaf.model, 0, 0)) + 1,
           Len(row) - Len(leaf.compartments))

\* C15: in every row the name cells are exactly the names of the named
\* groups on the path from the root to the row's node, from the root down
\* (joined by the separator when one is given); no row carries the name of
\* a group that is not an ancestor of its node.
C15_NamesOfPath ==
    Tabled =>
        /\ Len(Rows) = Len(TabledLeaves)
        /\ \A r \in 1..Len(Rows) :
               LET leaf == TabledLeaves[r]
                   names == NamesAlong(leaf.model, leaf.path)
               IN  NameCells(Rows[r], leaf)
                       = IF tabled.concat_names = None THEN names
                         ELSE <<join(tabled.concat_names[1], names)>>

\* whether all the leaves of a model hold the same compartment keys
SameKeys(model) ==
    \A v \in Addresses(LeavesOf(model)), w \in Addresses(LeavesOf(model)) :
        DictKeys(v.compartments) = DictKeys(w.compartments)

\* whether all the leaves of a model lie under the same named levels
LevelsNamed(model, path) ==
    {n \in 0..Len(path) : Has(Ancestor(model, path, n), "name")}
SameLevels(model) ==
    \A v \in Addresses(LeavesOf(model)), w \in Addresses(LeavesOf(model)) :
        LevelsNamed(model, v.path) = LevelsNamed(model, w.path)

\* C16: for a model stamped with an iteration and no identifier whose leaves
\* all lie under the same d named levels and hold the same compartment
\* keys, the header is 'iter', then 'name_0' to 'name_(d-1)', then the
\* compartment keys; when a separator is given a single 'name' takes the
\* place of the name_i.
C16_Header ==
    /\ Tabled /\ tabled.header
    /\ Has(HeaderModel, "iteration") /\ ~Has(HeaderModel, "ident")
    /\ SameLevels(HeaderModel) /\ SameKeys(HeaderModel)
    => LET leaf == LeavesOf(HeaderModel)[1]
           d == Cardinality(LevelsNamed(HeaderModel, leaf.path))
       IN  table[1]
               = << <<"iter">> >>
                 \o (IF tabled.concat_names = None
                     THEN List([n \in 1..d |-> <<"name_">> \o str(n - 1)])
                     ELSE << <<"name">> >>)
                 \o DictKeys(leaf.compartments)

\* C17: for models whose leaves all hold the same compartment keys, every
\* row of the table has as many cells as the header row, also when sibling
\* branches are of different depths, the deeper or the shallower first.
C17_RowsAsWideAsHeader ==
    /\ Tabled /\ tabled.header
    /\ \A n \in 1..Len(TabledModels) : SameKeys(TabledModels[n])
    => \A r \in 1..Len(Rows) : Len(Rows[r]) = Len(table[1])

\* C18: series_to_table gives, below the header if one is asked for, one
\* row for each node bearing compartments, of each model, of each snapshot:
\* snapshot after snapshot, model after model, the nodes in pre-order; the
\* last cells of a row are the values the node holds, as they are, in the
\* order of the node's keys; and the series is left as it was.
C18_OneRowPerLeaf ==
    /\ [](Tabled /\ tabled.func = "series_to_table" =>
              /\ Len(table) = Len(TabledLeaves) + (IF tabled.header THEN 1 ELSE 0)
              /\ \A r \in 1..Len(Rows) :
                     LET c == TabledLeaves[r].compartments
                     IN  /\ Len(Rows[r]) >= Len(c)
                         /\ \A i \in 1..Len(c) :
                                Rows[r][Len(Rows[r]) - Len(c) + i] = c[i][2])
    /\ [][Tabled' => heap' = heap /\ series' = series]_vars

\* a table made of a series of three or more snapshots of a model of two or
\* more leaves, the values of a leaf differing from snapshot to snapshot
C18_Witness ==
    /\ Tabled /\ tabled.func = "series_to_table"
    /\ Len(series) >= 3
    /\ Len(LeavesOf(HeaderModel)) >= 2
    /\ Len(Rows) = Len(series) * Len(LeavesOf(HeaderModel))
    /\ \E r \in 1..Len(Rows), q \in 1..Len(Rows) :
          /\ TabledLeaves[r].path = TabledLeaves[q].path
          /\ TabledLeaves[r].compartments # TabledLeaves[q].compartments

(***************************************************************************)
(* The runs of simulate_series.                                            *)
(***************************************************************************)
Returned == returned # None

\* the series the worker of task k returned
SeriesOf(k) == output[k][1]

\* the number of elements the tasks before task k put into the results
RECURSIVE Before(_)
Before(k) == IF k = 1 THEN 0 ELSE Before(k - 1) + Len(SeriesOf(k - 1))

\* C19: simulate_series returns the series of the lists it was given, one
\* after the other in the order the lists were given, in whatever order the
\* workers end; and every model of every snapshot of the k-th list, counted
\* from 0, the list numbered 0 too, carries the identifier k.
C19_InOrderWithIdent ==
    Returned =>
        /\ Len(returned[1]) = Before(Len(submitted) + 1)
        /\ \A k \in 1..Len(submitted) :
               \A i \in 1..Len(SeriesOf(k)) :
                   /\ returned[1][Before(k) + i] = SeriesOf(k)[i]
                   /\ \A j \in 1..Len(SeriesOf(k)[i]) :
                          /\ Has(SeriesOf(k)[i][j], "ident")
                          /\ SeriesOf(k)[i][j].ident = k - 1
                          /\ SeriesOf(k)[i][j].name
                                 \in {submitted[k][n].name :
                                         n \in 1..Len(submitted[k])}

\* two lists that differ, the worker of the second ending first
C19_Witness ==
    /\ Returned
    /\ Len(submitted) = 2
    /\ submitted[1] # submitted[2]
    /\ finished = <<2, 1>>
    /\ Len(SeriesOf(1)) >= 2 /\ Len(SeriesOf(2)) >= 2
    /\ returned[1][1][1].ident = 0
    /\ returned[1][Len(returned[1])][1].ident = 1

\* the same list given every time
SameList == \A k \in 1..Len(submitted) : submitted[k] = submitted[1]

\* [r for r in results if r[0]['ident'] == k]
Filtered(modelListSeries, k) ==
    SelectSeq(modelListSeries, LAMBDA r : r[1].ident = k)

\* whether the k-th part of the results is what simulate(modelList, k)
\* returns, whatever it draws
AsSequential(k) ==
    \A draws \in DrawsOf(submitted[k]) :
        Filtered(returned[1], k - 1) = simulate(submitted[k], <<k - 1>>, draws)

NoNoise(modelList) ==
    \A k \in 1..Len(modelList) : ~AnyNoise(traverse(Resolved(modelList[k])))

DividesByN(func) == func \in {"delta_S_I", "delta_S_I1"}

\* whether the pass of the loop for iteration it gets to model number k
Reached(ms, k, it) == \A j \in 1..k : ~OutOfRange(ms[j], it)

\* the leaves _update_compartments visits in model, with the transitions and
\* the parameters each is visited with
VisitsOf(model) ==
    _update_compartments(model, calc_totals(model),
                         [i \in 1..MaxDraws |-> 0], 0).visits

\* whether N is zero and a rule that divides by it is called at a leaf
ZeroDivides(model) ==
    /\ DictGet(calc_totals(model), nN) = Num(0)
    /\ \E n \in 1..Len(VisitsOf(model)) :
           LET v == VisitsOf(model)[n]
           IN  \E m \in 1..Len(v.t) :
                   DividesByN(RuleFor(v.parameters.transition_funcs, v.t[m][1]))

\* a pass of the loop is about to call such a rule with N zero
AboutToDivideByZero ==
    /\ pc = "iterating"
    /\ iteration < to_max
    /\ \E k \in 1..Len(work) :
           /\ Reached(WorkModels, k, iteration)
           /\ ZeroDivides(WorkModels[k])

NothingUndefinedRecorded == ~Raised(Concatenated(<< <<>>, SeriesModels >>))

\* C21: when delta_S_I or delta_S_I1 is called at a leaf while N is zero,
\* simulate raises: the pass records nothing, nothing follows it and no
\* series is returned; no snapshot ever holds a value that came of a
\* division by zero.
C21_ZeroDivisionRaises ==
    /\ [](NothingUndefinedRecorded)
    /\ [][/\ pc # "raised"
           /\ AboutToDivideByZero =>
                  pc' = "raised" /\ series' = series /\ heap' = heap]_vars

\* a population that died out in an iteration: the next one raised, after
\* snapshots had been made
C21_Witness ==
    /\ pc = "raised"
    /\ iteration >= 1
    /\ Len(series) >= 2
    /\ DictGet(calc_totals(WorkModels[1]), nN) = Num(0)
    /\ DictGet(WorkModels[1].compartments, nD) = Num(4)

(***************************************************************************)
(* What a run moves, it keeps.                                             *)
(***************************************************************************)
\* the sum of all the compartments of a model, the dead and the births too
SumOfCompartments(model) == SumOfValues(<<Num(0), AllCompartments(model)>>)

\* the entries of the series that are states of the caller's model number k,
\* as <<snapshot, place>>
EntriesOf(k) == {e \in Entries : SnapshotOf(e).name = Caller(k).name}

Coefficients(model) ==
    LET gs == traverse(model)
    IN  List([n \in 1..Len(gs) |->
                 IF Has(gs[n], "transitions") THEN gs[n].transitions
                 ELSE <<>>])
Counts(model) ==
    LET gs == traverse(model)
    IN  List([n \in 1..Len(gs) |->
                 IF Has(gs[n], "compartments") THEN gs[n].compartments
                 ELSE <<>>])

\* the stamp of a model, if it has one
StampOf(model) == IF Has(model, "iteration") THEN <<model.iteration>> ELSE None

\* the iteration of the pass the visits are of
Pass == iteration - 1

\* C23 as stated: the totals are taken and the transitions applied while
\* the model still carries the stamp it came into the pass with; the stamp
\* i + 1 is put only after the after_funcs.
C23_StampedAfterHooks ==
    \A n \in 1..Len(visits) :
        /\ StampOf(visits[n].model) = StampOf(visits[n].entered)
        /\ StampOf(visits[n].updated) = StampOf(visits[n].entered)

\* C23, amended: in iteration i a model is first stamped i + 1; then its
\* before_funcs run in list order, the totals are taken of what they left,
\* the transitions are applied to every node with these totals, and the
\* after_funcs run on what the transitions left; the models are taken in
\* list order, each after the one before it is done.
C23_OrderOfPass ==
    \A n \in 1..Len(visits) :
        LET v == visits[n]
            funcs == v.entered.parameters
            now == WorkModels[v.k]
        IN  /\ v.k = n
            /\ StampOf(v.model) = <<Pass + 1>>
            /\ StampOf(v.updated) = <<Pass + 1>>
            /\ Coefficients(v.model)
                   = Coefficients(RunHooks(funcs.before_funcs,
                                           <<v.entered>>, 1)[1])
            /\ Counts(v.model) = Counts(v.entered)
            /\ v.totals = calc_totals(v.model)
            /\ Coefficients(v.updated) = Coefficients(v.model)
            /\ \E r \in Rnds(<<v.model>>) :
                   v.updated
                       = _update_compartments(v.model, v.totals, r, 0).model
            /\ pc # "finished" =>
                   /\ Coefficients(now)
                          = Coefficients(RunHooks(funcs.after_funcs,
                                                  <<v.updated>>, 1)[1])
                   /\ Counts(now) = Counts(v.updated)
                   /\ StampOf(now) = <<Pass + 1>>

\* a pass after the first of a model with reduce_infectivity among its
\* before_funcs: the model came in stamped with the iteration before, the
\* hook changed the transitions the totals and the deltas were made with
C23_Witness ==
    /\ pc = "iterating"
    /\ Pass >= 1
    /\ \E n \in 1..Len(visits) :
          LET v == visits[n]
          IN  /\ v.entered.parameters.before_funcs = <<"reduce_infectivity">>
              /\ StampOf(v.entered) = <<Pass>>
              /\ StampOf(v.model) = <<Pass + 1>>
              /\ Coefficients(v.model) # Coefficients(v.entered)
              /\ Counts(v.updated) # Counts(v.model)

(***************************************************************************)
(* The two loops of a leaf.                                                *)
(***************************************************************************)
\* the sum of the deltas of the transitions chosen
SumOfDeltas(deltas, Chosen(_)) == SumWhere(deltas, Chosen)

\* what the leaf holds under name once every delta is applied: what it
\* held, less what left it, plus what came to it
Settled(v, name) ==
    RAdd(RSub(DictGet(v.leaf.compartments, name),
              SumOfDeltas(v.leaf.deltas, LAMBDA key : from_(key) = name)),
         SumOfDeltas(v.leaf.deltas, LAMBDA key : to_(key) = name))

\* the orders the transitions of a leaf could come in: all of them for up
\* to three transitions, the order turned round for more
Orders(n) ==
    IF n <= 3
    THEN {p \in [1..n -> 1..n] : \A i, j \in 1..n : p[i] = p[j] => i = j}
    ELSE {[i \in 1..n |-> i], [i \in 1..n |-> n + 1 - i]}

\* the compartments the two loops leave for the transitions in the order p
InOrder(v, p) ==
    LET t == List([i \in 1..Len(v.leaf.t) |-> v.leaf.t[p[i]]])
    IN  ApplyDeltas(<<v.leaf.compartments,
                      ComputeDeltas([deltas |-> <<>>, t |-> t, draws |-> 0],
                                    v.leaf.parameters, v.leaf.compartments,
                                    v.totals, v.leaf.live,
                                    [i \in 1..MaxDraws |-> 0]).deltas>>)

\* C24: at a leaf every delta of an iteration is what its rule gives for the
\* compartments the leaf held before any delta of the iteration was applied
\* to it; the leaf then holds, under each name, what it held less the deltas
\* that left plus the deltas that came; so, without noise, the transitions
\* taken in another order leave the same compartments.
C24_ComputedThenApplied ==
    \A v \in LeafVisits :
        /\ \A i \in 1..Len(v.leaf.t) :
               GivesNamed(RuleFor(v.leaf.parameters.transition_funcs,
                                  v.leaf.t[i][1]),
                          v, v.leaf.t[i][1], v.leaf.t[i][2],
                          DictGet(v.leaf.deltas, v.leaf.t[i][1]))
        /\ DictKeys(v.leaf.applied) = DictKeys(v.leaf.compartments)
        /\ \A i \in 1..Len(v.leaf.applied) :
               v.leaf.applied[i][2] = Settled(v, v.leaf.applied[i][1])
        /\ GroupAt(visits[CHOOSE n \in 1..Len(visits) :
                              visits[n].model = v.model].updated,
                   v.leaf.path).compartments = v.leaf.applied
        /\ v.leaf.parameters.noise = Num(0) =>
               \A p \in Orders(Len(v.leaf.t)) : InOrder(v, p) = v.leaf.applied

\* a leaf with a chain of transitions, S to I and I to R, both at work: what
\* came to I in the first did not add to what left it in the second
C24_Witness ==
    \E v \in LeafVisits :
        /\ DictHas(v.leaf.t, Key(nS, nI)) /\ DictHas(v.leaf.t, Key(nI, nR))
        /\ DictGet(v.leaf.deltas, Key(nS, nI))[1] > 0
        /\ DictGet(v.leaf.deltas, Key(nI, nR))[1] > 0
        /\ DictGet(v.leaf.deltas, Key(nI, nR))
               = Discretized(RMul(DictGet(v.leaf.t, Key(nI, nR)),
                                  DictGet(v.leaf.compartments, nI)),
                             v.leaf.parameters.discrete)
        /\ DictGet(v.leaf.applied, nI)
               = RSub(RAdd(DictGet(v.leaf.compartments, nI),
                           DictGet(v.leaf.deltas, Key(nS, nI))),
                      DictGet(v.leaf.deltas, Key(nI, nR)))
        /\ v.leaf.parameters.noise = Num(0)
        /\ v.leaf.parameters.transition_funcs = PARAMETERS.transition_funcs

(***************************************************************************)
(* The state the rules of a pass see.                                      *)
(***************************************************************************)
\* the visit of a leaf, had the model been at the leaf's visit what it was
\* when the totals were taken
AtDispatch(v) == [v EXCEPT !.leaf.live = v.model]

\* C25: in an iteration the deltas of every leaf are what the rules give for
\* the tree as it was when _update_compartments was called: N and the
\* infectious population (totals[to] for delta_S_I, sum_infectiousness for
\* delta_S_I1) are those of that one state, whichever leaves were visited
\* before.
C25_RulesSeeDispatchState ==
    \A v \in LeafVisits :
        /\ v.totals = calc_totals(v.model)
        /\ \A i \in 1..Len(v.leaf.t) :
               GivesNamed(RuleFor(v.leaf.parameters.transition_funcs,
                                  v.leaf.t[i][1]),
                          AtDispatch(v), v.leaf.t[i][1], v.leaf.t[i][2],
                          DictGet(v.leaf.deltas, v.leaf.t[i][1]))

(***************************************************************************)
(* The places of the models in the snapshots.                              *)
(***************************************************************************)
\* C26: every snapshot of the series has one entry for each model of the
\* list given, in the order of the list: entry k of every snapshot is a
\* state of model k, whatever the record_first, record_last,
\* record_frequency, from and to of the models.
C26_OneEntryPerModel ==
    \A i \in 1..Len(series) :
        /\ Len(series[i]) = Len(input)
        /\ \A j \in 1..Len(series[i]) :
               SnapshotOf(<<i, j>>).name = Caller(j).name

(***************************************************************************)
(* Values below zero.                                                      *)
(***************************************************************************)
RLe(a, b) == a[1] * b[2] <= b[1] * a[2]

NonNegative(model) ==
    \A i \in 1..Len(AllCompartments(model)) :
        AllCompartments(model)[i][2][1] >= 0

\* every coefficient of the model is in [0, 1]
InUnit(model) ==
    \A n \in 1..Len(Coefficients(model)) :
        \A m \in 1..Len(Coefficients(model)[n]) :
            /\ RLe(Num(0), Coefficients(model)[n][m][2])
            /\ RLe(Coefficients(model)[n][m][2], Num(1))

Leaving(v, name) == SelectSeq(v.t, LAMBDA item : from_(item[1]) = name)

\* whether no leaf can be asked for more than it holds: at every leaf the
\* coefficients of the transitions that leave one compartment, noise at its
\* highest, sum to 1 at most, and with rounding there is one such transition
\* at most and whole numbers to start with; no rule takes a share of
\* another compartment than the source (delta_birth_X), or of a total that N
\* does not hold (delta_S_I into the dead); no hook raises a coefficient
Tame(model) ==
    LET m == Resolved(model)
    IN  /\ RLe(m.parameters.reduce_infectivity, Num(1))
        /\ RLe(m.parameters.treatment_infectiousness, Num(1))
        /\ RLe(m.parameters.asymptomatic_infectiousness, Num(1))
        /\ LET vs == VisitsOf(m) IN \A n \in 1..Len(vs) :
               LET v == vs[n]
               IN  /\ \A i \in 1..Len(v.compartments) :
                          LET out == Leaving(v, v.compartments[i][1])
                          IN  /\ RLe(RMul(SumOfValues(<<Num(0), out>>),
                                          RAdd(Num(1), v.parameters.noise)),
                                     Num(1))
                              /\ v.parameters.discrete =>
                                     /\ Len(out) <= 1
                                     /\ v.compartments[i][2][2] = 1
                   /\ \A i \in 1..Len(v.t) :
                          LET func == RuleFor(v.parameters.transition_funcs,
                                              v.t[i][1])
                          IN  /\ func # "delta_birth_X"
                              /\ func = "delta_S_I" => to_(v.t[i][1])[1] # "D"

RECURSIVE RPow(_, _)
RPow(r, n) == IF n = 0 THEN Num(1) ELSE RMul(r, RPow(r, n - 1))

\* the hooks registered in the caller's model number k
HooksOf(k) ==
    Resolved(Caller(k)).parameters.before_funcs
        \o Resolved(Caller(k)).parameters.after_funcs

\* the parameter reduce_infectivity of the caller's model number k
ReductionOf(k) == Resolved(Caller(k)).parameters.reduce_infectivity

\* whether the hook reduces the transition key
Reduces(key) ==
    from_(key)[1] = "S" /\ (to_(key)[1] = "E" \/ to_(key)[1] = "I")

\* the model without its hooks
Unhooked(model) ==
    [model EXCEPT !.parameters =
        RecUpdate(@, [before_funcs |-> <<>>, after_funcs |-> <<>>])]

\* the transitions and the compartments of the snapshots of a series
Outcome(modelListSeries) ==
    List([i \in 1..Len(modelListSeries) |->
             List([j \in 1..Len(modelListSeries[i]) |->
                      <<Coefficients(modelListSeries[i][j]),
                        Counts(modelListSeries[i][j]),
                        modelListSeries[i][j].iteration>>])])

\* C28: with reduce_infectivity registered once, among the before_funcs or
\* the after_funcs, and the parameter reduce_infectivity r, a snapshot made
\* after n iterations holds, for every transition anywhere in the tree from
\* a source whose name starts with S to a destination whose name starts
\* with E or I, the coefficient the caller gave times r^n, and for every
\* other transition the coefficient the caller gave; with r = 1 the run is
\* the run of the same model without the hook.
C28_ReducedByPowers ==
    \A k \in 1..Len(input) :
        HooksOf(k) = <<"reduce_infectivity">>
        /\ Resolved(Caller(k)).parameters.from = 0 =>
            /\ \A e \in EntriesOf(k) :
                   LET stated == Coefficients(Caller(k))
                       held == Coefficients(SnapshotOf(e))
                       n == SnapshotOf(e).iteration
                   IN  /\ Len(held) = Len(stated)
                       /\ \A g \in 1..Len(stated) :
                              /\ Len(held[g]) = Len(stated[g])
                              /\ \A m \in 1..Len(stated[g]) :
                                     /\ held[g][m][1] = stated[g][m][1]
                                     /\ held[g][m][2]
                                            = IF Reduces(stated[g][m][1])
                                              THEN RMul(stated[g][m][2],
                                                        RPow(ReductionOf(k), n))
                                              ELSE stated[g][m][2]
            /\ Finished /\ Single /\ ReductionOf(k) = Num(1) =>
                   \E draws \in DrawsOf(<<Caller(k)>>) :
                       Outcome(SeriesModels)
                           = Outcome(simulate(<<Unhooked(Caller(k))>>, ident,
                                              draws))

\* a finished run of a tree with the hook and r = 1/2: after two iterations
\* a coefficient from S to E is a quarter of what it was, one from E to I
\* is what it was
C28_Witness ==
    /\ Finished
    /\ Single
    /\ HooksOf(1) = <<"reduce_infectivity">>
    /\ ReductionOf(1) = Half
    /\ Has(Caller(1), "transitions")
    /\ DictHas(Caller(1).transitions, Key(nS, nE))
    /\ DictHas(Caller(1).transitions, Key(nE, nI))
    /\ \E e \in EntriesOf(1) :
          /\ SnapshotOf(e).iteration = 2
          /\ DictGet(SnapshotOf(e).transitions, Key(nS, nE))
                 = RMul(DictGet(Caller(1).transitions, Key(nS, nE)), Quarter)
          /\ DictGet(SnapshotOf(e).transitions, Key(nE, nI))
                 = DictGet(Caller(1).transitions, Key(nE, nI))

\* a finished run with the hook registered and r = 1
C28_WitnessOne ==
    /\ Finished
    /\ HooksOf(1) = <<"reduce_infectivity">>
    /\ ReductionOf(1) = Num(1)
    /\ Len(series) >= 3

(***************************************************************************)
(* Whole numbers.                                                          *)
(***************************************************************************)
Whole(model) ==
    \A i \in 1..Len(AllCompartments(model)) :
        AllCompartments(model)[i][2][2] = 1

\* discrete is set for the model, and no group of it says otherwise
DiscreteThroughout(model) ==
    /\ Resolved(model).parameters.discrete
    /\ \A n \in 1..Len(traverse(model)) :
           LET g == traverse(model)[n]
           IN  Has(g, "parameters") /\ Has(g.parameters, "discrete")
                   => g.parameters.discrete

\* C29: with discrete set and whole numbers in all the compartments to
\* start with, every compartment of every snapshot holds a whole number,
\* whatever the coefficients, the noise and the number of iterations.
C29_WholeNumbersKept ==
    \A k \in 1..Len(input) :
        DiscreteThroughout(Caller(k)) /\ Whole(Caller(k)) =>
            \A e \in EntriesOf(k) : Whole(SnapshotOf(e))

\* a leaf of a rounded run with noise: what the rule gave, or what the
\* noise made of it, was no whole number, and the delta is one
C29_Witness ==
    /\ pc = "iterating"
    /\ iteration >= 2
    /\ \E v \in LeafVisits :
          /\ v.leaf.parameters.discrete
          /\ v.leaf.parameters.noise # Num(0)
          /\ Whole(v.model)
          /\ \E i \in 1..Len(v.leaf.t) :
                 LET key == v.leaf.t[i][1]
                     val == CallRule(RuleFor(v.leaf.parameters.transition_funcs,
                                             key),
                                     key, v.leaf.t[i][2], v.leaf.compartments,
                                     v.totals, v.leaf.live)
                 IN  /\ val[2] # 1
                     /\ DictGet(v.leaf.deltas, key)[2] = 1
                     /\ DictGet(v.leaf.deltas, key)[1] > 0
                     /\ DictGet(v.leaf.deltas, key) # PyRound(val)

(***************************************************************************)
(* The births and N.                                                       *)
(***************************************************************************)
\* C30: the N calc_totals returns leaves out the compartments whose name
\* starts with B, as it leaves out those whose name starts with D: it is
\* the sum of the values held under all the other names.
C30_BirthsNotInN ==
    \A n \in 1..Len(visits) :
        DictGet(visits[n].totals, nN)
            = SumWhere(AllCompartments(visits[n].model),
                       LAMBDA key : key[1] # "D" /\ key[1] # "B")

====
